---- MODULE Spec2Model ----
(***************************************************************************)
(* Rexta toolchain: the opcode table (op.rs), the 24-bit integer (u24.rs), *)
(* the instruction encoder and two-pass assembler (rexta-asm) and the CPU  *)
(* fetch/decode/execute loop (cpu.rs), as one state machine.               *)
(*                                                                         *)
(* Text is a sequence of one-character strings; a byte is a number         *)
(* 0..255; memory is the zero-initialised 64 KiB array, held as the        *)
(* function of its non-zero cells.                                         *)
(***************************************************************************)
EXTENDS Integers, Sequences, FiniteSets, TLC

\* ------------------------------------------------------------------------
\* Bounds of the model
\* ------------------------------------------------------------------------

\* run() executes at most this many cycles in the model
MaxTicks == 6

\* at most this many U24 operations are applied in a row
MaxU24Ops == 2

\* ------------------------------------------------------------------------
\* Bit arithmetic on naturals
\* ------------------------------------------------------------------------

RECURSIVE BitAnd(_, _)
BitAnd(a, b) ==
  IF a = 0 \/ b = 0 THEN 0
  ELSE (IF a % 2 = 1 /\ b % 2 = 1 THEN 1 ELSE 0) + 2 * BitAnd(a \div 2, b \div 2)

RECURSIVE BitOr(_, _)
BitOr(a, b) ==
  IF a = 0 THEN b
  ELSE IF b = 0 THEN a
  ELSE (IF a % 2 = 1 \/ b % 2 = 1 THEN 1 ELSE 0) + 2 * BitOr(a \div 2, b \div 2)

RECURSIVE BitXor(_, _)
BitXor(a, b) ==
  IF a = 0 THEN b
  ELSE IF b = 0 THEN a
  ELSE (IF a % 2 # b % 2 THEN 1 ELSE 0) + 2 * BitXor(a \div 2, b \div 2)

\* ------------------------------------------------------------------------
\* u24.rs
\* ------------------------------------------------------------------------

U24_MASK == 16777215

\* U24::new without the mask
U24_new_unmasked(val) == val

U24_new(val) == BitAnd(val, U24_MASK)

\* from_bytes(high, mid, low)
U24_from_bytes(high, mid, low) ==
  U24_new(BitOr(BitOr(high * 65536, mid * 256), low))

\* [u8; 3], low byte first
U24_to_le_bytes(v) ==
  << BitAnd(v, 255), BitAnd(v \div 256, 255), BitAnd(v \div 65536, 255) >>

U24_from_le_bytes(b) == U24_new(BitOr(BitOr(b[1], b[2] * 256), b[3] * 65536))

\* wrapping_add on u32 followed by the mask; both arguments are below 2^24
U24_add(a, rhs) == U24_new(a + BitAnd(rhs, U24_MASK))

\* wrapping_sub on u32 followed by the mask: 2^24 divides 2^32
U24_sub(a, rhs) == (a - BitAnd(rhs, U24_MASK)) % 16777216

U24_bitand(a, b) == U24_new(BitAnd(a, b))
U24_bitor(a, b) == U24_new(BitOr(a, b))
U24_bitxor(a, b) == U24_new(BitXor(a, b))

\* !self.0 on u32, then the mask
U24_not(a) == U24_MASK - a

\* Add for U24: wrapping_add on u32, then the mask
U24_add_U24(a, b) == U24_new(a + b)

\* Sub for U24: wrapping_sub on u32, then the mask
U24_sub_U24(a, b) == (a - b) % 16777216

\* AddAssign for U24 and AddAssign<u32>: the mask applied in place
U24_add_assign_U24(a, b) == BitAnd(a + b, U24_MASK)

U24_add_assign(a, rhs) == BitAnd(a + BitAnd(rhs, U24_MASK), U24_MASK)

\* SubAssign for U24 and SubAssign<u32>
U24_sub_assign_U24(a, b) == (a - b) % 16777216

U24_sub_assign(a, rhs) == (a - BitAnd(rhs, U24_MASK)) % 16777216

\* self.0 << rhs on u32 for rhs below 32, then the mask: the bits moved to
\* position 24 and above are dropped
U24_shl(a, rhs) ==
  IF rhs >= 24 THEN 0 ELSE U24_new((a % (2 ^ (24 - rhs))) * (2 ^ rhs))

\* self.0 >> rhs on u32 for rhs below 32, then the mask
U24_shr(a, rhs) == IF rhs >= 24 THEN 0 ELSE U24_new(a \div (2 ^ rhs))

\* u16::to_le_bytes
U16_to_le_bytes(v) == << v % 256, v \div 256 >>

\* ------------------------------------------------------------------------
\* op.rs: the opcode table
\* ------------------------------------------------------------------------

\* enum OpCode with its discriminants
OpCode ==
  "NOP" :> 0 @@
  "HLT" :> 4 @@
  "RTS" :> 8 @@
  "ADD1" :> 513 @@
  "SUB1" :> 517 @@
  "AND1" :> 521 @@
  "OR1" :> 525 @@
  "XOR1" :> 529 @@
  "MOV1" :> 533 @@
  "INC1" :> 537 @@
  "DEC1" :> 541 @@
  "NEG1" :> 545 @@
  "NOT1" :> 549 @@
  "SHL1" :> 553 @@
  "SHR1" :> 557 @@
  "ROL1" :> 561 @@
  "ROR1" :> 565 @@
  "CMP1" :> 569 @@
  "TST1" :> 573 @@
  "PUSH1" :> 577 @@
  "POP1" :> 581 @@
  "ADD2" :> 514 @@
  "SUB2" :> 518 @@
  "AND2" :> 522 @@
  "OR2" :> 526 @@
  "XOR2" :> 530 @@
  "MOV2" :> 534 @@
  "INC2" :> 538 @@
  "DEC2" :> 542 @@
  "NEG2" :> 546 @@
  "NOT2" :> 550 @@
  "SHL2" :> 554 @@
  "SHR2" :> 558 @@
  "ROL2" :> 562 @@
  "ROR2" :> 566 @@
  "CMP2" :> 570 @@
  "TST2" :> 574 @@
  "PUSH2" :> 578 @@
  "POP2" :> 582 @@
  "ADD3" :> 515 @@
  "SUB3" :> 519 @@
  "AND3" :> 523 @@
  "OR3" :> 527 @@
  "XOR3" :> 531 @@
  "MOV3" :> 535 @@
  "INC3" :> 539 @@
  "DEC3" :> 543 @@
  "NEG3" :> 547 @@
  "NOT3" :> 551 @@
  "SHL3" :> 555 @@
  "SHR3" :> 559 @@
  "ROL3" :> 563 @@
  "ROR3" :> 567 @@
  "CMP3" :> 571 @@
  "TST3" :> 575 @@
  "PUSH3" :> 579 @@
  "POP3" :> 583 @@
  "LOADI1" :> 1025 @@
  "ADDI1" :> 1097 @@
  "JMP" :> 1536 @@
  "JZ" :> 1540 @@
  "JNZ" :> 1544 @@
  "JC" :> 1548 @@
  "JNC" :> 1552 @@
  "JSR" :> 1556 @@
  "LOADI2" :> 1538 @@
  "ADDI2" :> 1614 @@
  "JMPA" :> 1539 @@
  "JZA" :> 1543 @@
  "JNZA" :> 1547 @@
  "JCA" :> 1551 @@
  "JNCA" :> 1555 @@
  "JSRA" :> 1559 @@
  "LOAD1" :> 2053 @@
  "STORE1" :> 2057 @@
  "LOAD2" :> 2054 @@
  "STORE2" :> 2058 @@
  "LOADI3" :> 2051 @@
  "LOAD3" :> 2055 @@
  "STORE3" :> 2059 @@
  "ADDI3" :> 2131

TryFromTable ==
  {<<4, "HLT">>,
   <<8, "RTS">>,
   <<513, "ADD1">>,
   <<517, "SUB1">>,
   <<521, "AND1">>,
   <<525, "OR1">>,
   <<529, "XOR1">>,
   <<533, "MOV1">>,
   <<537, "INC1">>,
   <<541, "DEC1">>,
   <<545, "NEG1">>,
   <<549, "NOT1">>,
   <<553, "SHL1">>,
   <<557, "SHR1">>,
   <<561, "ROL1">>,
   <<565, "ROR1">>,
   <<569, "CMP1">>,
   <<573, "TST1">>,
   <<577, "PUSH1">>,
   <<581, "POP1">>,
   <<514, "ADD2">>,
   <<518, "SUB2">>,
   <<522, "AND2">>,
   <<526, "OR2">>,
   <<530, "XOR2">>,
   <<534, "MOV2">>,
   <<538, "INC2">>,
   <<542, "DEC2">>,
   <<546, "NEG2">>,
   <<550, "NOT2">>,
   <<554, "SHL2">>,
   <<558, "SHR2">>,
   <<562, "ROL2">>,
   <<566, "ROR2">>,
   <<570, "CMP2">>,
   <<574, "TST2">>,
   <<578, "PUSH2">>,
   <<582, "POP2">>,
   <<515, "ADD3">>,
   <<519, "SUB3">>,
   <<523, "AND3">>,
   <<527, "OR3">>,
   <<531, "XOR3">>,
   <<535, "MOV3">>,
   <<539, "INC3">>,
   <<543, "DEC3">>,
   <<547, "NEG3">>,
   <<551, "NOT3">>,
   <<555, "SHL3">>,
   <<559, "SHR3">>,
   <<563, "ROL3">>,
   <<567, "ROR3">>,
   <<571, "CMP3">>,
   <<575, "TST3">>,
   <<579, "PUSH3">>,
   <<583, "POP3">>,
   <<1025, "LOADI1">>,
   <<1097, "ADDI1">>,
   <<1536, "JMP">>,
   <<1540, "JZ">>,
   <<1544, "JNZ">>,
   <<1548, "JC">>,
   <<1552, "JNC">>,
   <<1556, "JSR">>,
   <<1538, "LOADI2">>,
   <<1614, "ADDI2">>,
   <<1539, "JMPA">>,
   <<1543, "JZA">>,
   <<1547, "JNZA">>,
   <<1551, "JCA">>,
   <<1555, "JNCA">>,
   <<1559, "JSRA">>,
   <<2053, "LOAD1">>,
   <<2057, "STORE1">>,
   <<2054, "LOAD2">>,
   <<2058, "STORE2">>,
   <<2051, "LOADI3">>,
   <<2055, "LOAD3">>,
   <<2059, "STORE3">>,
   <<2131, "ADDI3">>}

OpCodeNames == DOMAIN OpCode

\* OpCode::try_from(value): the decoded operation, or "Err"
TryFrom(value) ==
  IF \E p \in TryFromTable : p[1] = value
  THEN (CHOOSE p \in TryFromTable : p[1] = value)[2]
  ELSE "Err"

\* Op::new(): NOP with four zero operand bytes
Op_new == [code |-> "NOP", operands |-> << 0, 0, 0, 0 >>]

\* Operand arrays are indexed from 0 in the source, from 1 here

\* Op::rd reading the low nibble
Op_rd_low(op) == BitAnd(op.operands[1], 15)

Op_rd(op) == BitAnd(op.operands[1], 240) \div 16

Op_rs(op) == BitAnd(op.operands[1], 15)

Op_read_u8(op, index) == op.operands[index + 1]

Op_read_u16(op, index) ==
  BitOr(op.operands[index + 1], op.operands[index + 2] * 256)

Op_read_u24(op, index) ==
  U24_new(BitOr(BitOr(op.operands[index + 1], op.operands[index + 2] * 256),
                op.operands[index + 3]))

\* ------------------------------------------------------------------------
\* rexta-asm/ast.rs: registers, addresses, instructions
\* ------------------------------------------------------------------------

Registers == {"R0", "R1", "R2", "R3", "R4", "R5", "R6", "R7", "R8"}

Register_encode(r) ==
  CASE r = "R0" -> 0 [] r = "R1" -> 1 [] r = "R2" -> 2
    [] r = "R3" -> 3 [] r = "R4" -> 4 [] r = "R5" -> 5
    [] r = "R6" -> 6 [] r = "R7" -> 7 [] r = "R8" -> 8

\* enum Address
Addr(a) == [kind |-> "Addr", val |-> a]
Label(n) == [kind |-> "Label", name |-> n]

\* Instruction::opcode(): the OpCode of each Instruction variant
OpcodeTable ==
  "HLT" :> "HLT" @@
  "RTS" :> "RTS" @@
  "ADD1" :> "ADD1" @@
  "SUB1" :> "SUB1" @@
  "AND1" :> "AND1" @@
  "OR1" :> "OR1" @@
  "XOR1" :> "XOR1" @@
  "MOV1" :> "MOV1" @@
  "INC1" :> "INC1" @@
  "DEC1" :> "DEC1" @@
  "NEG1" :> "NEG1" @@
  "NOT1" :> "NOT1" @@
  "SHL1" :> "SHL1" @@
  "SHR1" :> "SHR1" @@
  "ROL1" :> "ROL1" @@
  "ROR1" :> "ROR1" @@
  "CMP1" :> "CMP1" @@
  "TST1" :> "TST1" @@
  "PUSH1" :> "PUSH1" @@
  "POP1" :> "POP1" @@
  "ADD2" :> "ADD2" @@
  "SUB2" :> "SUB2" @@
  "AND2" :> "AND2" @@
  "OR2" :> "OR2" @@
  "XOR2" :> "XOR2" @@
  "MOV2" :> "MOV2" @@
  "INC2" :> "INC2" @@
  "DEC2" :> "DEC2" @@
  "NEG2" :> "NEG2" @@
  "NOT2" :> "NOT2" @@
  "SHL2" :> "SHL2" @@
  "SHR2" :> "SHR2" @@
  "ROL2" :> "ROL2" @@
  "ROR2" :> "ROR2" @@
  "CMP2" :> "CMP2" @@
  "TST2" :> "TST2" @@
  "PUSH2" :> "PUSH2" @@
  "POP2" :> "POP2" @@
  "ADD3" :> "ADD3" @@
  "SUB3" :> "SUB3" @@
  "AND3" :> "AND3" @@
  "OR3" :> "OR3" @@
  "XOR3" :> "XOR3" @@
  "MOV3" :> "MOV3" @@
  "INC3" :> "INC3" @@
  "DEC3" :> "DEC3" @@
  "NEG3" :> "NEG3" @@
  "NOT3" :> "NOT3" @@
  "SHL3" :> "SHL3" @@
  "SHR3" :> "SHR3" @@
  "ROL3" :> "ROL3" @@
  "ROR3" :> "ROR3" @@
  "CMP3" :> "CMP3" @@
  "TST3" :> "TST3" @@
  "PUSH3" :> "PUSH3" @@
  "POP3" :> "POP3" @@
  "LOADI1" :> "LOADI1" @@
  "ADDI1" :> "ADDI1" @@
  "JMP" :> "JMP" @@
  "JZ" :> "JZ" @@
  "JNZ" :> "JNZ" @@
  "JC" :> "JC" @@
  "JNC" :> "JNC" @@
  "JSR" :> "JSR" @@
  "LOADI2" :> "LOADI2" @@
  "ADDI2" :> "ADDI2" @@
  "JMPA" :> "JMPA" @@
  "JZA" :> "JZA" @@
  "JNZA" :> "JNZA" @@
  "JCA" :> "JCA" @@
  "JNCA" :> "JNCA" @@
  "JSRA" :> "JSRA" @@
  "LOAD1" :> "LOAD1" @@
  "STORE1" :> "STORE1" @@
  "LOAD2" :> "LOAD2" @@
  "STORE2" :> "STORE2" @@
  "LOADI3" :> "LOADI3" @@
  "LOAD3" :> "LOAD3" @@
  "STORE3" :> "STORE3" @@
  "ADDI3" :> "ADDI3"


\* The arms of the match in Instruction::encode, by operand layout
UnaryRd ==
  {"NOT1", "NOT2", "NOT3", "INC1", "INC2", "INC3", "DEC1", "DEC2", "DEC3",
   "NEG1", "NEG2", "NEG3", "SHL1", "SHL2", "SHL3", "SHR1", "SHR2", "SHR3",
   "ROL1", "ROL2", "ROL3", "ROR1", "ROR2", "ROR3", "POP1", "POP2", "POP3"}

PushRs ==
  {"PUSH1", "PUSH2", "PUSH3"}

PairRdRs ==
  {"ADD1", "SUB1", "AND1", "OR1", "XOR1", "ADD2", "SUB2", "AND2", "OR2",
   "XOR2", "ADD3", "SUB3", "AND3", "OR3", "XOR3", "MOV1", "MOV2", "MOV3",
   "CMP1", "CMP2", "CMP3", "TST1", "TST2", "TST3"}

Imm1Rd == {"LOADI1", "ADDI1"}

Imm2Rd == {"LOADI2", "ADDI2"}

Imm3Rd == {"LOADI3", "ADDI3"}

LoadRdAddr ==
  {"LOAD1", "LOAD2", "LOAD3"}

StoreRsAddr ==
  {"STORE1", "STORE2", "STORE3"}

JumpAddr ==
  {"JMP", "JZ", "JC", "JNZ", "JNC", "JSR", "JMPA", "JZA", "JCA", "JNZA",
   "JNCA", "JSRA"}

NoOperand ==
  {"RTS", "HLT"}

HasAddr == LoadRdAddr \cup StoreRsAddr \cup JumpAddr

Instruction_opcode(i) == OpcodeTable[i.name]

Instruction_opcode_bytes(i) == U16_to_le_bytes(OpCode[Instruction_opcode(i)])

\* a length that counts the opcode word only
Instruction_length_opcode(i) == 2

Instruction_length(i) ==
  BitAnd(OpCode[Instruction_opcode(i)], 3584) \div 512 + 2

\* ------------------------------------------------------------------------
\* rexta-asm/assembler.rs: the encoder
\* ------------------------------------------------------------------------

\* u8 << 4: the bits shifted out are lost
Shl4(b) == (b * 16) % 256

\* encode panics with "Label not resolved" on an Address::Label operand
encode_panics(i) == i.name \in HasAddr /\ i.addr.kind # "Addr"

\* the operand bytes pushed after the opcode bytes
encode_operands(i) ==
  CASE i.name \in UnaryRd -> << Shl4(Register_encode(i.rd)) >>
    [] i.name \in PushRs -> << Register_encode(i.rs) >>
    [] i.name \in PairRdRs ->
         << BitOr(Register_encode(i.rs), Shl4(Register_encode(i.rd))) >>
    [] i.name \in Imm1Rd -> << Shl4(Register_encode(i.rd)), i.imm >>
    [] i.name \in Imm2Rd ->
         << Shl4(Register_encode(i.rd)) >> \o U16_to_le_bytes(i.imm)
    [] i.name \in Imm3Rd ->
         << Shl4(Register_encode(i.rd)) >> \o U24_to_le_bytes(i.imm)
    [] i.name \in LoadRdAddr ->
         << Shl4(Register_encode(i.rd)) >> \o U24_to_le_bytes(i.addr.val)
    [] i.name \in StoreRsAddr ->
         << Register_encode(i.rs) >> \o U24_to_le_bytes(i.addr.val)
    [] i.name \in JumpAddr -> U24_to_le_bytes(i.addr.val)
    [] i.name \in NoOperand -> << >>

Instruction_encode(i) == Instruction_opcode_bytes(i) \o encode_operands(i)

\* ------------------------------------------------------------------------
\* cpu.rs: the CPU
\* ------------------------------------------------------------------------

VARIABLES
  pc,              \* Cpu.pc
  mem,             \* Cpu.mem, as the function of its non-zero cells
  regs,            \* Cpu.regs
  flags,           \* Cpu.flags
  sp,              \* Cpu.sp
  is_running,      \* Cpu.is_running
  ir,              \* Cpu.ir
  ic,              \* Cpu.ic
  op,              \* the Op that decode returned to tick
  fetch_pos,       \* the local `pos` of the last fetch
  at,              \* where control is: "new", "fetch", "decode", "execute",
                   \* "returned" (run returned) or "aborted" (panic)
  result,          \* what run returned: "Ok", "InvalidOpCode",
                   \* "InvalidInstruction"; "panic" after an abort
  err_code,        \* the payload of CpuError::InvalidOpCode
  panic_msg,       \* the message of the panic that ended run
  overflow_checks, \* the build: TRUE panics on integer overflow, FALSE wraps
  text,            \* the source text given to assemble
  asm,             \* the outcome of assemble
  instr,           \* the Instruction given to Instruction::encode
  bytes,           \* the bytes the encoder or the assembler returned
  loaded,          \* what was copied into memory: "none", "asm", "instr",
                   \* "image"
  prev,            \* the Cpu as it was when the last execute was entered
  before,          \* the Cpu as it was when the last fetch was entered
  u24,             \* a U24 value held by a user of u24.rs
  u24_n,           \* the number of U24 operations applied to it
  u24_op           \* the last of them, with the value before and the operand

vars ==
  << pc, mem, regs, flags, sp, is_running, ir, ic, op, fetch_pos, at, result,
     err_code, panic_msg, overflow_checks, text, asm, instr, bytes, loaded,
     prev, before, u24, u24_n, u24_op >>

\* the variables of the Cpu, the assembler and the encoder
machine_vars ==
  << pc, mem, regs, flags, sp, is_running, ir, ic, op, fetch_pos, at, result,
     err_code, panic_msg, overflow_checks, text, asm, instr, bytes, loaded,
     prev, before >>

MemSize == 65536

NumRegs == 9

FLAG_ZERO == 1

FLAG_CARRY == 2

\* the stack pointer of Cpu::new()
InitialSp == 65534

\* mem[a] of the zero-initialised array
MemAt(m, a) == IF a \in DOMAIN m THEN m[a] ELSE 0

\* mem[a] = v
MemSet(m, a, v) ==
  IF v = 0
  THEN [x \in DOMAIN m \ {a} |-> m[x]]
  ELSE [x \in DOMAIN m \cup {a} |-> IF x = a THEN v ELSE m[x]]

RECURSIVE MemCopy(_, _, _)
\* mem[pos .. pos + Len(bs)].copy_from_slice(bs)
MemCopy(m, pos, bs) ==
  IF bs = << >> THEN m
  ELSE MemCopy(MemSet(m, pos, Head(bs)), pos + 1, Tail(bs))

\* indexing mem at a or slicing mem[a .. a + n] stays inside the array
mem_in_bounds(a, n) == a + n <= MemSize

mem_read(m, addr) == MemAt(m, addr)

mem_write(m, addr, val) == MemSet(m, addr, val)

mem_write2(m, addr, val) == MemCopy(m, addr, U16_to_le_bytes(val))

mem_write3(m, addr, val) == MemCopy(m, addr, U24_to_le_bytes(val))

\* indexing regs at reg .. reg + w - 1 stays inside the register file
reg_in_bounds(reg, w) == reg + w <= NumRegs

reg_read(r, reg) == r[reg]

reg_read2(r, reg) == BitOr(r[reg + 1] * 256, r[reg])

reg_read3(r, reg) == U24_from_le_bytes(<< r[reg], r[reg + 1], r[reg + 2] >>)

reg_write(r, reg, val) == [r EXCEPT ![reg] = val]

\* a write of the pair with the high byte in the addressed cell
reg_write2_high_first(r, reg, val) ==
  [r EXCEPT ![reg] = BitAnd(val, 65280) \div 256, ![reg + 1] = BitAnd(val, 255)]

reg_write2(r, reg, val) ==
  [r EXCEPT ![reg] = BitAnd(val, 255), ![reg + 1] = BitAnd(val, 65280) \div 256]

\* reg_write2 on the last register: the low cell is written, then the
\* index of the high cell is out of bounds
reg_write2_partial(r, reg, val) ==
  IF reg < NumRegs THEN [r EXCEPT ![reg] = BitAnd(val, 255)] ELSE r

reg_write3(r, reg, val) ==
  LET b == U24_to_le_bytes(val)
  IN  [r EXCEPT ![reg] = b[1], ![reg + 1] = b[2], ![reg + 2] = b[3]]

\* the accessors by operand width
RegRead(r, reg, w) ==
  CASE w = 1 -> reg_read(r, reg)
    [] w = 2 -> reg_read2(r, reg)
    [] w = 3 -> reg_read3(r, reg)

RegWrite(r, reg, w, val) ==
  CASE w = 1 -> reg_write(r, reg, val)
    [] w = 2 -> reg_write2(r, reg, val)
    [] w = 3 -> reg_write3(r, reg, val)

flag_read(f, flag) == BitAnd(f, flag) # 0

flag_write(f, flag, val) ==
  IF val THEN BitOr(f, flag) ELSE BitAnd(f, 255 - flag)

\* 2^(8w): one more than the largest value of a w-byte operand
Modulus(w) == CASE w = 1 -> 256 [] w = 2 -> 65536 [] w = 3 -> 16777216

\* ------------------------------------------------------------------------
\* cpu.rs: execute
\* ------------------------------------------------------------------------

\* The arms of the match in execute, by operation and width
F_ADD == << "ADD1", "ADD2", "ADD3" >>
F_SUB == << "SUB1", "SUB2", "SUB3" >>
F_AND == << "AND1", "AND2", "AND3" >>
F_OR == << "OR1", "OR2", "OR3" >>
F_XOR == << "XOR1", "XOR2", "XOR3" >>
F_NOT == << "NOT1", "NOT2", "NOT3" >>
F_LOADI == << "LOADI1", "LOADI2", "LOADI3" >>
F_ADDI == << "ADDI1", "ADDI2", "ADDI3" >>
F_INC == << "INC1", "INC2", "INC3" >>
F_DEC == << "DEC1", "DEC2", "DEC3" >>
F_STORE == << "STORE1", "STORE2", "STORE3" >>

InFam(code, F) == \E w \in 1 .. 3 : F[w] = code

WidthIn(code, F) == CHOOSE w \in 1 .. 3 : F[w] = code

\* the Cpu fields execute works on, with the outcome of the call
CpuOf(p, m, r, f, s, run) ==
  [pc |-> p, mem |-> m, regs |-> r, flags |-> f, sp |-> s, is_running |-> run,
   out |-> "Ok", msg |-> ""]

Abort(c, m) == [c EXCEPT !.out = "panic", !.msg = m]

OutOfBounds == "index out of bounds"

SubOverflow == "attempt to subtract with overflow"

NotImplemented == "OpCode not implemented"

\* flag_write(FLAG_ZERO, z); flag_write(FLAG_CARRY, cy)
SetZC(c, z, cy) ==
  [c EXCEPT !.flags = flag_write(flag_write(@, FLAG_ZERO, z), FLAG_CARRY, cy)]

\* the immediate of LOADI / ADDI: op.read_op(1), read_op2(1), read_op3(1),
\* which op.rs defines under the names read_u8, read_u16, read_u24
ImmOperand(o, w) ==
  CASE w = 1 -> Op_read_u8(o, 1)
    [] w = 2 -> Op_read_u16(o, 1)
    [] w = 3 -> Op_read_u24(o, 1)

\* the address of JMP / JZ, rebuilt inline from the operand bytes
JumpTarget(o) ==
  U24_new(BitOr(BitOr(o.operands[1], o.operands[2] * 256),
                o.operands[3] * 65536))

\* the address of STORE: op.read_op3(1)
StoreAddress(o) == Op_read_u24(o, 1)

exec_ADD(o, c, w) ==
  LET rd == Op_rd(o)
      rs == Op_rs(o)
  IN  IF ~reg_in_bounds(rd, w) \/ ~reg_in_bounds(rs, w)
      THEN Abort(c, OutOfBounds)
      ELSE LET value == RegRead(c.regs, rd, w) + RegRead(c.regs, rs, w)
           IN  SetZC([c EXCEPT !.regs = RegWrite(@, rd, w, value % Modulus(w))],
                     value % Modulus(w) = 0,
                     BitAnd(value, Modulus(w)) # 0)

exec_SUB(o, c, w, checks) ==
  LET rd == Op_rd(o)
      rs == Op_rs(o)
  IN  IF ~reg_in_bounds(rd, w) \/ ~reg_in_bounds(rs, w)
      THEN Abort(c, OutOfBounds)
      ELSE LET rdv == RegRead(c.regs, rd, w)
               rsv == RegRead(c.regs, rs, w)
               value == (rdv - rsv) % Modulus(w)
           IN  IF rdv < rsv /\ checks
               THEN Abort(c, SubOverflow)
               ELSE SetZC([c EXCEPT !.regs = RegWrite(@, rd, w, value)],
                          value = 0, rdv < rsv)

\* AND, OR, XOR leaving CARRY as it was
exec_LOGIC_keep_carry(o, c, w, kind) ==
  LET rd == Op_rd(o)
      rs == Op_rs(o)
  IN  IF ~reg_in_bounds(rd, w) \/ ~reg_in_bounds(rs, w)
      THEN Abort(c, OutOfBounds)
      ELSE LET a == RegRead(c.regs, rd, w)
               b == RegRead(c.regs, rs, w)
               value == CASE kind = "AND" -> BitAnd(a, b)
                          [] kind = "OR" -> BitOr(a, b)
                          [] kind = "XOR" -> BitXor(a, b)
           IN  SetZC([c EXCEPT !.regs = RegWrite(@, rd, w, value)],
                     value = 0, flag_read(c.flags, FLAG_CARRY))

\* AND, OR, XOR: kind is the operator
exec_LOGIC(o, c, w, kind) ==
  LET rd == Op_rd(o)
      rs == Op_rs(o)
  IN  IF ~reg_in_bounds(rd, w) \/ ~reg_in_bounds(rs, w)
      THEN Abort(c, OutOfBounds)
      ELSE LET a == RegRead(c.regs, rd, w)
               b == RegRead(c.regs, rs, w)
               value == CASE kind = "AND" -> BitAnd(a, b)
                          [] kind = "OR" -> BitOr(a, b)
                          [] kind = "XOR" -> BitXor(a, b)
           IN  SetZC([c EXCEPT !.regs = RegWrite(@, rd, w, value)],
                     value = 0, FALSE)

exec_NOT(o, c, w) ==
  LET rd == Op_rd(o)
  IN  IF ~reg_in_bounds(rd, w)
      THEN Abort(c, OutOfBounds)
      ELSE LET value == Modulus(w) - 1 - RegRead(c.regs, rd, w)
           IN  SetZC([c EXCEPT !.regs = RegWrite(@, rd, w, value)],
                     value = 0, FALSE)

exec_LOADI(o, c, w) ==
  LET rd == Op_rd(o)
      imm == ImmOperand(o, w)
  IN  IF ~reg_in_bounds(rd, w)
      THEN IF w = 2
           THEN Abort([c EXCEPT !.regs = reg_write2_partial(@, rd, imm)],
                      OutOfBounds)
           ELSE Abort(c, OutOfBounds)
      ELSE SetZC([c EXCEPT !.regs = RegWrite(@, rd, w, imm)], imm = 0, FALSE)

exec_ADDI(o, c, w) ==
  LET rd == Op_rd(o)
  IN  IF ~reg_in_bounds(rd, w)
      THEN Abort(c, OutOfBounds)
      ELSE LET value == RegRead(c.regs, rd, w) + ImmOperand(o, w)
           IN  SetZC([c EXCEPT !.regs = RegWrite(@, rd, w, value % Modulus(w))],
                     value % Modulus(w) = 0,
                     BitAnd(value, Modulus(w)) # 0)

exec_INC(o, c, w) ==
  LET rd == Op_rd(o)
  IN  IF ~reg_in_bounds(rd, w)
      THEN Abort(c, OutOfBounds)
      ELSE LET value == RegRead(c.regs, rd, w) + 1
           IN  SetZC([c EXCEPT !.regs = RegWrite(@, rd, w, value % Modulus(w))],
                     value % Modulus(w) = 0,
                     BitAnd(value, Modulus(w)) # 0)

\* DEC1 and DEC2 subtract on u16 / u32, DEC3 on U24, which wraps
exec_DEC(o, c, w, checks) ==
  LET rd == Op_rd(o)
  IN  IF ~reg_in_bounds(rd, w)
      THEN Abort(c, OutOfBounds)
      ELSE LET a == RegRead(c.regs, rd, w)
               value == (a - 1) % Modulus(w)
           IN  IF a = 0 /\ checks /\ w # 3
               THEN Abort(c, SubOverflow)
               ELSE SetZC([c EXCEPT !.regs = RegWrite(@, rd, w, value)],
                          value = 0, value = Modulus(w) - 1)

exec_STORE(o, c, w) ==
  LET rs == Op_rs(o)
      addr == StoreAddress(o)
  IN  IF ~reg_in_bounds(rs, w) \/ ~mem_in_bounds(addr, w)
      THEN Abort(c, OutOfBounds)
      ELSE LET val == RegRead(c.regs, rs, w)
           IN  [c EXCEPT !.mem = CASE w = 1 -> mem_write(@, addr, val)
                                   [] w = 2 -> mem_write2(@, addr, val)
                                   [] w = 3 -> mem_write3(@, addr, val)]

exec_RTS(c) ==
  LET sp1 == U24_add(c.sp, 2)
      c1 == [c EXCEPT !.sp = sp1]
      a2 == U24_sub(sp1, 2)
      a1 == U24_sub(sp1, 1)
  IN  IF ~mem_in_bounds(a2, 1) \/ ~mem_in_bounds(a1, 1) \/ ~mem_in_bounds(sp1, 1)
      THEN Abort(c1, OutOfBounds)
      ELSE [c1 EXCEPT !.pc =
              U24_bitor(U24_bitor(U24_shl(U24_new(mem_read(c.mem, a2)), 16),
                                  U24_shl(U24_new(mem_read(c.mem, a1)), 8)),
                        U24_new(mem_read(c.mem, sp1)))]

\* a JMP that also clears the flags as the arithmetic arms do
exec_JMP_clears_flags(o, c) == [c EXCEPT !.pc = JumpTarget(o), !.flags = 0]

exec_JMP(o, c) == [c EXCEPT !.pc = JumpTarget(o)]

\* JZ testing the CARRY flag
exec_JZ_on_carry(o, c) ==
  IF flag_read(c.flags, FLAG_CARRY) THEN [c EXCEPT !.pc = JumpTarget(o)] ELSE c

exec_JZ(o, c) ==
  IF flag_read(c.flags, FLAG_ZERO) THEN [c EXCEPT !.pc = JumpTarget(o)] ELSE c

\* HLT leaving is_running set
exec_HLT_continue(c) == c

exec_HLT(c) == [c EXCEPT !.is_running = FALSE]

\* Cpu::execute: the Cpu after the call, out = "panic" when it aborted
execute(o, c, checks) ==
  CASE o.code = "NOP" -> c
    [] o.code = "RTS" -> exec_RTS(c)
    [] o.code = "HLT" -> exec_HLT(c)
    [] InFam(o.code, F_ADD) -> exec_ADD(o, c, WidthIn(o.code, F_ADD))
    [] InFam(o.code, F_SUB) -> exec_SUB(o, c, WidthIn(o.code, F_SUB), checks)
    [] InFam(o.code, F_AND) -> exec_LOGIC(o, c, WidthIn(o.code, F_AND), "AND")
    [] InFam(o.code, F_OR) -> exec_LOGIC(o, c, WidthIn(o.code, F_OR), "OR")
    [] InFam(o.code, F_XOR) -> exec_LOGIC(o, c, WidthIn(o.code, F_XOR), "XOR")
    [] InFam(o.code, F_NOT) -> exec_NOT(o, c, WidthIn(o.code, F_NOT))
    [] InFam(o.code, F_LOADI) -> exec_LOADI(o, c, WidthIn(o.code, F_LOADI))
    [] InFam(o.code, F_ADDI) -> exec_ADDI(o, c, WidthIn(o.code, F_ADDI))
    [] InFam(o.code, F_INC) -> exec_INC(o, c, WidthIn(o.code, F_INC))
    [] InFam(o.code, F_DEC) -> exec_DEC(o, c, WidthIn(o.code, F_DEC), checks)
    [] o.code = "JMP" -> exec_JMP(o, c)
    [] o.code = "JZ" -> exec_JZ(o, c)
    [] InFam(o.code, F_STORE) -> exec_STORE(o, c, WidthIn(o.code, F_STORE))
    [] OTHER -> Abort(c, NotImplemented)

\* decode masking the opcode word with 0x600
operand_count_mask(code) == BitAnd(code, 1536) \div 512

\* decode: the number of operand bytes that follow the opcode word
operand_count(code) == BitAnd(code, 3584) \div 512

\* a decode that reads the operand bytes before it looks at the opcode
decode_fault_pc_after_operands(p, n) == U24_add(p, n)

\* decode: pc when try_from fails, which is before the operand loop
decode_fault_pc(p, n) == p

\* a loop that counts a cycle only while the Cpu is still running
tick_count_running(n, c) == IF c.is_running THEN U24_add(n, 1) ELSE n

\* run: self.ic += 1 after tick returned Ok, c being the Cpu it left
tick_count(n, c) == U24_add(n, 1)

\* a fetch that leaves pc on the opcode word
fetch_pc_stays(p) == p

\* fetch: self.pc += 2
fetch_pc(p) == U24_add(p, 2)
\* ------------------------------------------------------------------------
\* Text: str methods the assembler uses, on sequences of characters
\* ------------------------------------------------------------------------

LowerCase ==
  << "a", "b", "c", "d", "e", "f", "g", "h", "i", "j", "k", "l", "m",
     "n", "o", "p", "q", "r", "s", "t", "u", "v", "w", "x", "y", "z" >>

UpperCase ==
  << "A", "B", "C", "D", "E", "F", "G", "H", "I", "J", "K", "L", "M",
     "N", "O", "P", "Q", "R", "S", "T", "U", "V", "W", "X", "Y", "Z" >>

DecDigits == << "0", "1", "2", "3", "4", "5", "6", "7", "8", "9" >>

Whitespace == {" ", "\t", "\r"}

to_uppercase_char(ch) ==
  IF \E k \in 1 .. 26 : LowerCase[k] = ch
  THEN UpperCase[CHOOSE k \in 1 .. 26 : LowerCase[k] = ch]
  ELSE ch

to_uppercase(s) == [k \in 1 .. Len(s) |-> to_uppercase_char(s[k])]

starts_with(s, prefix) ==
  Len(s) >= Len(prefix) /\ SubSeq(s, 1, Len(prefix)) = prefix

ends_with_char(s, ch) == Len(s) > 0 /\ s[Len(s)] = ch

RECURSIVE trim_start(_)
trim_start(s) ==
  IF s # << >> /\ Head(s) \in Whitespace THEN trim_start(Tail(s)) ELSE s

RECURSIVE trim_end(_)
trim_end(s) ==
  IF s # << >> /\ s[Len(s)] \in Whitespace
  THEN trim_end(SubSeq(s, 1, Len(s) - 1))
  ELSE s

trim(s) == trim_end(trim_start(s))

RECURSIVE trim_end_matches(_, _)
trim_end_matches(s, ch) ==
  IF s # << >> /\ s[Len(s)] = ch
  THEN trim_end_matches(SubSeq(s, 1, Len(s) - 1), ch)
  ELSE s

\* the position of the first ch in s, 0 when there is none
find(s, ch) ==
  IF \E k \in 1 .. Len(s) : s[k] = ch
  THEN CHOOSE k \in 1 .. Len(s) : s[k] = ch /\ \A j \in 1 .. k - 1 : s[j] # ch
  ELSE 0

RECURSIVE split(_, _)
\* s.split(seps): the pieces between separators, empty pieces included
split(s, seps) ==
  IF \E k \in 1 .. Len(s) : s[k] \in seps
  THEN LET k == CHOOSE k \in 1 .. Len(s) :
                  s[k] \in seps /\ \A j \in 1 .. k - 1 : s[j] \notin seps
       IN  << SubSeq(s, 1, k - 1) >> \o split(SubSeq(s, k + 1, Len(s)), seps)
  ELSE << s >>

\* text.lines(): split at line feeds, no final empty line, a carriage
\* return before the line feed dropped
lines(t) ==
  LET raw == split(t, {"\n"})
      cut == IF raw[Len(raw)] = << >> THEN SubSeq(raw, 1, Len(raw) - 1) ELSE raw
  IN  [k \in 1 .. Len(cut) |->
         IF ends_with_char(cut[k], "\r")
         THEN SubSeq(cut[k], 1, Len(cut[k]) - 1)
         ELSE cut[k]]

\* the value of a digit in the radix, -1 when it is not one
to_digit(ch, radix) ==
  LET u == to_uppercase_char(ch)
      v == IF \E k \in 1 .. 10 : DecDigits[k] = u
           THEN (CHOOSE k \in 1 .. 10 : DecDigits[k] = u) - 1
           ELSE IF \E k \in 1 .. 6 : UpperCase[k] = u
           THEN (CHOOSE k \in 1 .. 6 : UpperCase[k] = u) + 9
           ELSE -1
  IN  IF v < radix THEN v ELSE -1

\* from_str_radix accepts one leading plus sign before the digits
strip_sign(s) == IF Len(s) > 1 /\ s[1] = "+" THEN Tail(s) ELSE s

RECURSIVE parse_digits(_, _, _, _)
\* the digits of s after acc, -1 on a bad digit or a value above max
parse_digits(s, radix, max, acc) ==
  IF s = << >> THEN acc
  ELSE LET d == to_digit(Head(s), radix)
       IN  IF d < 0 \/ acc * radix + d > max THEN -1
           ELSE parse_digits(Tail(s), radix, max, acc * radix + d)

\* str::parse::<u8>() and ::<u16>(): decimal, -1 for Err
parse_unsigned(s, max) ==
  IF s = << >> THEN -1 ELSE parse_digits(strip_sign(s), 10, max, 0)

RECURSIVE parse_digits_u32(_, _, _, _)
\* u32 digits, the value kept as hi * 2^24 + lo; its low 24 bits, or -1
parse_digits_u32(s, radix, hi, lo) ==
  IF s = << >> THEN lo
  ELSE LET d == to_digit(Head(s), radix)
           n == lo * radix + d
           h == hi * radix + n \div 16777216
       IN  IF d < 0 \/ h > 255 THEN -1
           ELSE parse_digits_u32(Tail(s), radix, h, n % 16777216)

\* u32::from_str_radix(s, radix) followed by U24::new; -1 for Err
from_str_radix_u32(s, radix) ==
  IF s = << >> THEN -1 ELSE parse_digits_u32(strip_sign(s), radix, 0, 0)

\* impl FromStr for U24
U24_from_str(s) ==
  LET radix == IF starts_with(s, << "0", "x" >>) THEN 16 ELSE 10
  IN  from_str_radix_u32(s, radix)

\* ------------------------------------------------------------------------
\* rexta-asm/assembler.rs: the parser
\* ------------------------------------------------------------------------

None == [name |-> "None"]

\* Option<Register>: the register, or "None"
parse_register(s) ==
  LET u == to_uppercase(s)
  IN  IF Len(u) = 2 /\ u[1] = "R" /\ to_digit(u[2], 9) >= 0
      THEN LET n == to_digit(u[2], 9)
           IN  CHOOSE r \in Registers : Register_encode(r) = n
      ELSE "None"

\* Option<Address>: the address, or None
parse_address(s) ==
  IF starts_with(s, << "0", "x" >>)
     \/ (s # << >> /\ \E k \in 1 .. 10 : DecDigits[k] = s[1])
  THEN LET v == U24_from_str(s) IN IF v < 0 THEN None ELSE Addr(v)
  ELSE Label(s)

\* the arms of the match on the mnemonic in parse_line: its text, the
\* closure that parses its operands and the variant for each width
MnemonicTable ==
  {[text |-> << "A", "D", "D" >>, kind |-> "rd_rs",
    variants |-> << "ADD1", "ADD2", "ADD3" >>],
   [text |-> << "S", "U", "B" >>, kind |-> "rd_rs",
    variants |-> << "SUB1", "SUB2", "SUB3" >>],
   [text |-> << "A", "N", "D" >>, kind |-> "rd_rs",
    variants |-> << "AND1", "AND2", "AND3" >>],
   [text |-> << "O", "R" >>, kind |-> "rd_rs",
    variants |-> << "OR1", "OR2", "OR3" >>],
   [text |-> << "X", "O", "R" >>, kind |-> "rd_rs",
    variants |-> << "XOR1", "XOR2", "XOR3" >>],
   [text |-> << "M", "O", "V" >>, kind |-> "rd_rs",
    variants |-> << "MOV1", "MOV2", "MOV3" >>],
   [text |-> << "C", "M", "P" >>, kind |-> "rd_rs",
    variants |-> << "CMP1", "CMP2", "CMP3" >>],
   [text |-> << "T", "S", "T" >>, kind |-> "rd_rs",
    variants |-> << "TST1", "TST2", "TST3" >>],
   [text |-> << "N", "O", "T" >>, kind |-> "rd",
    variants |-> << "NOT1", "NOT2", "NOT3" >>],
   [text |-> << "I", "N", "C" >>, kind |-> "rd",
    variants |-> << "INC1", "INC2", "INC3" >>],
   [text |-> << "D", "E", "C" >>, kind |-> "rd",
    variants |-> << "DEC1", "DEC2", "DEC3" >>],
   [text |-> << "N", "E", "G" >>, kind |-> "rd",
    variants |-> << "NEG1", "NEG2", "NEG3" >>],
   [text |-> << "S", "H", "L" >>, kind |-> "rd",
    variants |-> << "SHL1", "SHL2", "SHL3" >>],
   [text |-> << "S", "H", "R" >>, kind |-> "rd",
    variants |-> << "SHR1", "SHR2", "SHR3" >>],
   [text |-> << "R", "O", "L" >>, kind |-> "rd",
    variants |-> << "ROL1", "ROL2", "ROL3" >>],
   [text |-> << "R", "O", "R" >>, kind |-> "rd",
    variants |-> << "ROR1", "ROR2", "ROR3" >>],
   [text |-> << "P", "O", "P" >>, kind |-> "rd",
    variants |-> << "POP1", "POP2", "POP3" >>],
   [text |-> << "P", "U", "S", "H" >>, kind |-> "rs",
    variants |-> << "PUSH1", "PUSH2", "PUSH3" >>],
   [text |-> << "L", "O", "A", "D" >>, kind |-> "rd_addr",
    variants |-> << "LOAD1", "LOAD2", "LOAD3" >>],
   [text |-> << "S", "T", "O", "R", "E" >>, kind |-> "rs_addr",
    variants |-> << "STORE1", "STORE2", "STORE3" >>],
   [text |-> << "L", "O", "A", "D", "I" >>, kind |-> "rd_imm",
    variants |-> << "LOADI1", "LOADI2", "LOADI3" >>],
   [text |-> << "A", "D", "D", "I" >>, kind |-> "rd_imm",
    variants |-> << "ADDI1", "ADDI2", "ADDI3" >>],
   [text |-> << "J", "M", "P" >>, kind |-> "addr",
    variants |-> << "JMP" >>],
   [text |-> << "J", "Z" >>, kind |-> "addr",
    variants |-> << "JZ" >>],
   [text |-> << "J", "C" >>, kind |-> "addr",
    variants |-> << "JC" >>],
   [text |-> << "J", "S", "R" >>, kind |-> "addr",
    variants |-> << "JSR" >>],
   [text |-> << "J", "N", "Z" >>, kind |-> "addr",
    variants |-> << "JNZ" >>],
   [text |-> << "J", "N", "C" >>, kind |-> "addr",
    variants |-> << "JNC" >>],
   [text |-> << "J", "M", "P", "A" >>, kind |-> "addr",
    variants |-> << "JMPA" >>],
   [text |-> << "J", "Z", "A" >>, kind |-> "addr",
    variants |-> << "JZA" >>],
   [text |-> << "J", "C", "A" >>, kind |-> "addr",
    variants |-> << "JCA" >>],
   [text |-> << "J", "S", "R", "A" >>, kind |-> "addr",
    variants |-> << "JSRA" >>],
   [text |-> << "J", "N", "Z", "A" >>, kind |-> "addr",
    variants |-> << "JNZA" >>],
   [text |-> << "J", "N", "C", "A" >>, kind |-> "addr",
    variants |-> << "JNCA" >>],
   [text |-> << "R", "T", "S" >>, kind |-> "none",
    variants |-> << "RTS" >>],
   [text |-> << "H", "L", "T" >>, kind |-> "none",
    variants |-> << "HLT" >>]}

\* a match on the width whose last arm is the width-1 variant
width_index_default(width) ==
  IF width = << "2" >> THEN 2
  ELSE IF width = << "3" >> THEN 3
  ELSE 1

\* the width suffixes "1", "2", "3" as an index, 0 for any other
width_index(width) ==
  IF width = << "1" >> THEN 1
  ELSE IF width = << "2" >> THEN 2
  ELSE IF width = << "3" >> THEN 3
  ELSE 0

\* Option<Instruction>: the instruction of a line, or None
parse_line(line) ==
  LET all == split(line, {" ", ","})
      parts == SelectSeq(all, LAMBDA p : p # << >>)
  IN  IF parts = << >> THEN None
      ELSE
      LET base == to_uppercase(parts[1])
          dot == find(base, ".")
          opcode == IF dot > 0 THEN SubSeq(base, 1, dot - 1) ELSE base
          width == IF dot > 0 THEN SubSeq(base, dot + 1, Len(base))
                   ELSE << "1" >>
      IN  IF ~\E m \in MnemonicTable : m.text = opcode THEN None
          ELSE
          LET m == CHOOSE m \in MnemonicTable : m.text = opcode
              w == IF Len(m.variants) = 1 THEN 1 ELSE width_index(width)
              r1 == IF Len(parts) >= 2 THEN parse_register(parts[2])
                    ELSE "None"
              r2 == IF Len(parts) >= 3 THEN parse_register(parts[3])
                    ELSE "None"
              a1 == IF Len(parts) >= 2 THEN parse_address(parts[2]) ELSE None
              a2 == IF Len(parts) >= 3 THEN parse_address(parts[3]) ELSE None
              imm == IF Len(parts) < 3 THEN -1
                     ELSE CASE w = 1 -> parse_unsigned(parts[3], 255)
                            [] w = 2 -> parse_unsigned(parts[3], 65535)
                            [] w = 3 -> U24_from_str(parts[3])
          IN  IF w = 0 THEN None
              ELSE
              CASE m.kind = "rd_rs" ->
                     IF Len(parts) < 3 \/ r1 = "None" \/ r2 = "None" THEN None
                     ELSE [name |-> m.variants[w], rd |-> r1, rs |-> r2]
                [] m.kind = "rd" ->
                     IF r1 = "None" THEN None
                     ELSE [name |-> m.variants[w], rd |-> r1]
                [] m.kind = "rs" ->
                     IF r1 = "None" THEN None
                     ELSE [name |-> m.variants[w], rs |-> r1]
                [] m.kind = "rd_addr" ->
                     IF Len(parts) < 3 \/ r1 = "None" \/ a2 = None THEN None
                     ELSE [name |-> m.variants[w], rd |-> r1, addr |-> a2]
                [] m.kind = "rs_addr" ->
                     IF Len(parts) < 3 \/ r1 = "None" \/ a2 = None THEN None
                     ELSE [name |-> m.variants[w], rs |-> r1, addr |-> a2]
                [] m.kind = "rd_imm" ->
                     IF Len(parts) < 3 \/ r1 = "None" \/ imm < 0 THEN None
                     ELSE [name |-> m.variants[w], rd |-> r1, imm |-> imm]
                [] m.kind = "addr" ->
                     IF a1 = None THEN None
                     ELSE [name |-> m.variants[1], addr |-> a1]
                [] m.kind = "none" -> [name |-> m.variants[1]]

\* ------------------------------------------------------------------------
\* rexta-asm/assembler.rs: the two passes
\* ------------------------------------------------------------------------

\* the lines assemble works on: comments stripped, trimmed, blanks dropped
source_lines(t) ==
  LET ls == lines(t)
      stripped == [k \in 1 .. Len(ls) |-> trim(split(ls[k], {";"})[1])]
  IN  SelectSeq(stripped, LAMBDA l : l # << >>)

\* one line of the loop of create_label_map, parsed the tentatively parsed
\* line: the map and the offset after it
label_map_apply(line, parsed, st) ==
  IF ends_with_char(line, ":")
  THEN [labels |-> (trim_end_matches(line, ":") :> st.offset) @@ st.labels,
        offset |-> st.offset]
  ELSE IF parsed # None
  THEN [labels |-> st.labels,
        offset |-> U24_add(st.offset, Instruction_length(parsed))]
  ELSE st

label_map_line(line, st) == label_map_apply(line, parse_line(line), st)

\* a pass 1 that counts two bytes for a line it cannot parse
label_map_step_counts_unparsed(line0, st) ==
  IF ~ends_with_char(trim(line0), ":") /\ parse_line(trim(line0)) = None
  THEN [labels |-> st.labels, offset |-> U24_add(st.offset, 2)]
  ELSE label_map_line(trim(line0), st)

label_map_step(line0, st) == label_map_line(trim(line0), st)

RECURSIVE label_map_from(_, _)
\* the loop of create_label_map over the remaining lines
label_map_from(ls, st) ==
  IF ls = << >> THEN st.labels
  ELSE label_map_from(Tail(ls), label_map_step(Head(ls), st))

\* HashMap<String, U24>: the offset of each label
create_label_map(ls) ==
  label_map_from(ls, [labels |-> << >>, offset |-> 0])

\* the variants whose label operand pass 2 replaces
Resolved == {"JMP", "JZ", "JC", "JSR"}

\* a failure that says nothing
LabelNotResolved_silent == ""

\* the message of the panic of encode
LabelNotResolved == "Label not resolved"

UnknownLabel == "unknown label"

\* the debug print of the encoding of i, then the replacement of its label
resolve(i, labels) ==
  IF encode_panics(i)
  THEN [status |-> "panic", msg |-> LabelNotResolved, label |-> << >>]
  ELSE IF i.name \in Resolved /\ i.addr.kind = "Label"
  THEN IF i.addr.name \in DOMAIN labels
       THEN [status |-> "ok", instr |-> [i EXCEPT !.addr = Addr(labels[i.addr.name])]]
       ELSE [status |-> "panic", msg |-> UnknownLabel, label |-> i.addr.name]
  ELSE [status |-> "ok", instr |-> i]

\* the outcome r of resolve joined to the program collected so far
pass2_collect(r, st) ==
  IF r.status = "panic"
  THEN [status |-> "panic", msg |-> r.msg, label |-> r.label,
        program |-> st.program]
  ELSE [st EXCEPT !.program = Append(@, r.instr)]

\* a chain that keeps label lines and emits a HLT for each
pass2_apply_keeps_labels(line, parsed, labels, st) ==
  IF st.status = "panic" THEN st
  ELSE IF ends_with_char(line, ":")
  THEN [st EXCEPT !.program = Append(@, [name |-> "HLT"])]
  ELSE IF parsed = None THEN st
  ELSE pass2_collect(resolve(parsed, labels), st)

\* a line that parsed goes through the two maps; any other is filtered out
pass2_apply(line, parsed, labels, st) ==
  IF st.status = "panic" \/ ends_with_char(line, ":") \/ parsed = None
  THEN st
  ELSE pass2_collect(resolve(parsed, labels), st)

\* one line of the iterator chain that collects `program`
pass2_step(line, labels, st) == pass2_apply(line, parse_line(line), labels, st)

RECURSIVE pass2(_, _, _)
\* the iterator chain over the remaining lines; the first panic ends it
pass2(ls, labels, st) ==
  IF ls = << >> THEN st
  ELSE pass2(Tail(ls), labels, pass2_step(Head(ls), labels, st))

RECURSIVE encode_all(_)
\* program.iter().flat_map(|i| i.encode())
encode_all(program) ==
  IF program = << >> THEN << >>
  ELSE Instruction_encode(Head(program)) \o encode_all(Tail(program))

EmptyProgram == [status |-> "ok", msg |-> "", label |-> << >>, program |-> << >>]

\* the final flat_map over the collected program p
assemble_encode(p) ==
  IF p.status = "panic"
  THEN [status |-> "panic", msg |-> p.msg, label |-> p.label,
        bytes |-> << >>, program |-> << >>]
  ELSE IF \E k \in 1 .. Len(p.program) : encode_panics(p.program[k])
  THEN [status |-> "panic", msg |-> LabelNotResolved, label |-> << >>,
        bytes |-> << >>, program |-> << >>]
  ELSE [status |-> "ok", msg |-> "", label |-> << >>,
        bytes |-> encode_all(p.program), program |-> p.program]

\* the two passes over the cleaned lines
assemble_lines(ls) == assemble_encode(pass2(ls, create_label_map(ls), EmptyProgram))

\* assemble(text): the bytes, or the panic that ended it
assemble(t) == assemble_lines(source_lines(t))

\* ------------------------------------------------------------------------
\* Inputs
\* ------------------------------------------------------------------------

RECURSIVE Text(_)
\* the text whose lines are ls, each ended by a line feed
Text(ls) == IF ls = << >> THEN << >> ELSE Head(ls) \o << "\n" >> \o Text(Tail(ls))

\* LOADI R0, 10 / LOADI R1, 20 / ADD R0, R1 / STORE R0, 0x2000 / HLT
SrcSumHex ==
  Text(<<
    << "L", "O", "A", "D", "I", " ", "R", "0", ",", " ", "1", "0" >>,
    << "L", "O", "A", "D", "I", " ", "R", "1", ",", " ", "2", "0" >>,
    << "A", "D", "D", " ", "R", "0", ",", " ", "R", "1" >>,
    << "S", "T", "O", "R", "E", " ", "R", "0", ",", " ", "0", "x", "2", "0",
       "0", "0" >>,
    << "H", "L", "T" >> >>)

\* LOADI R0, 10 / LOADI R1, 20 / ADD R0, R1 / STORE R0, 8192 / HLT
SrcSumDec ==
  Text(<<
    << "L", "O", "A", "D", "I", " ", "R", "0", ",", " ", "1", "0" >>,
    << "L", "O", "A", "D", "I", " ", "R", "1", ",", " ", "2", "0" >>,
    << "A", "D", "D", " ", "R", "0", ",", " ", "R", "1" >>,
    << "S", "T", "O", "R", "E", " ", "R", "0", ",", " ", "8", "1", "9", "2" >>,
    << "H", "L", "T" >> >>)

\* JMP end / LOADI R0, 1 / end: / HLT
SrcForward ==
  Text(<<
    << "J", "M", "P", " ", "e", "n", "d" >>,
    << "L", "O", "A", "D", "I", " ", "R", "0", ",", " ", "1" >>,
    << "e", "n", "d", ":" >>,
    << "H", "L", "T" >> >>)

\* top: / LOADI R0, 0 / JZ top
SrcBackward ==
  Text(<<
    << "t", "o", "p", ":" >>,
    << "L", "O", "A", "D", "I", " ", "R", "0", ",", " ", "0" >>,
    << "J", "Z", " ", "t", "o", "p" >> >>)

\* JMP nowhere / HLT
SrcUnknown ==
  Text(<<
    << "J", "M", "P", " ", "n", "o", "w", "h", "e", "r", "e" >>,
    << "H", "L", "T" >> >>)

\* JNZ nowhere / HLT
SrcUnknownJnz ==
  Text(<<
    << "J", "N", "Z", " ", "n", "o", "w", "h", "e", "r", "e" >>,
    << "H", "L", "T" >> >>)

\* JNZ end / LOADI R0, 1 / end: / HLT
SrcJnzForward ==
  Text(<<
    << "J", "N", "Z", " ", "e", "n", "d" >>,
    << "L", "O", "A", "D", "I", " ", "R", "0", ",", " ", "1" >>,
    << "e", "n", "d", ":" >>,
    << "H", "L", "T" >> >>)

\* LOADI R0, 7 / STORE R0, data / HLT / data:
SrcStoreLabel ==
  Text(<<
    << "L", "O", "A", "D", "I", " ", "R", "0", ",", " ", "7" >>,
    << "S", "T", "O", "R", "E", " ", "R", "0", ",", " ", "d", "a", "t", "a" >>,
    << "H", "L", "T" >>,
    << "d", "a", "t", "a", ":" >> >>)

\* JMP 7 / INC R0 / HLT
SrcJmpNumber ==
  Text(<<
    << "J", "M", "P", " ", "7" >>,
    << "I", "N", "C", " ", "R", "0" >>,
    << "H", "L", "T" >> >>)

\* HLT
SrcHalt ==
  Text(<<
    << "H", "L", "T" >> >>)

\* LOADI R0, 1 / bogus r0 / mid: / INC R0 / LOADI R1 / JMP 12 / end: / HLT
SrcLabels ==
  Text(<<
    << "L", "O", "A", "D", "I", " ", "R", "0", ",", " ", "1" >>,
    << "b", "o", "g", "u", "s", " ", "r", "0" >>,
    << "m", "i", "d", ":" >>,
    << "I", "N", "C", " ", "R", "0" >>,
    << "L", "O", "A", "D", "I", " ", "R", "1" >>,
    << "J", "M", "P", " ", "1", "2" >>,
    << "e", "n", "d", ":" >>,
    << "H", "L", "T" >> >>)

\* the label name "mid"
LabelMid == << "m", "i", "d" >>

to_lowercase(s) ==
  [k \in 1 .. Len(s) |->
     IF \E j \in 1 .. 26 : UpperCase[j] = s[k]
     THEN LowerCase[CHOOSE j \in 1 .. 26 : UpperCase[j] = s[k]]
     ELSE s[k]]

\* the mnemonics that have a variant for each width
WidthFamilies == {m \in MnemonicTable : Len(m.variants) = 3}

\* what is written after the mnemonic: nothing, .1, .2, .3, .4, a lone dot,
\* .12
SuffixSamples ==
  {<< >>, << ".", "1" >>, << ".", "2" >>, << ".", "3" >>, << ".", "4" >>,
   << "." >>, << ".", "1", "2" >>}

\* the separator written between two operands
OperandSeparators == {<< ",", " " >>, << "," >>}

\* the operands written for each kind of mnemonic: R0, R1, 8192, 7
OperandText(kind, sep) ==
  CASE kind = "rd_rs" -> << "R", "0" >> \o sep \o << "R", "1" >>
    [] kind = "rd" -> << "R", "0" >>
    [] kind = "rs" -> << "R", "1" >>
    [] kind = "rd_addr" -> << "R", "0" >> \o sep \o << "8", "1", "9", "2" >>
    [] kind = "rs_addr" -> << "R", "1" >> \o sep \o << "8", "1", "9", "2" >>
    [] kind = "rd_imm" -> << "R", "0" >> \o sep \o << "7" >>

\* one line: the mnemonic m with a suffix and its operands, in lower case
\* when lower
MnemonicLine(m, suffix, sep, lower) ==
  LET l == m.text \o suffix \o << " " >> \o OperandText(m.kind, sep)
  IN  Text(<< IF lower THEN to_lowercase(l) ELSE l >>)

WidthSources ==
  {MnemonicLine(m, s, sep, lower) :
     m \in WidthFamilies, s \in SuffixSamples, sep \in OperandSeparators,
     lower \in BOOLEAN}

\* ; sum / (blank) / LOADI R0, 10 ; ten / (spaces) / start: / INC R0 ;one
\* / HLT
SrcComments ==
  Text(<<
    << ";", " ", "s", "u", "m" >>,
    << >>,
    << "L", "O", "A", "D", "I", " ", "R", "0", ",", " ", "1", "0", " ", ";",
       " ", "t", "e", "n" >>,
    << " ", " " >>,
    << "s", "t", "a", "r", "t", ":" >>,
    << " ", "I", "N", "C", " ", "R", "0", " ", ";", "o", "n", "e" >>,
    << "H", "L", "T" >> >>)

Sources ==
  {SrcSumHex, SrcSumDec, SrcForward, SrcBackward, SrcUnknown,
   SrcUnknownJnz, SrcJnzForward, SrcStoreLabel, SrcJmpNumber, SrcHalt,
   SrcLabels, SrcComments}
    \cup WidthSources

\* the label name "end"
LabelEnd == << "e", "n", "d" >>

Imm1Samples == {0, 1, 10, 255}

Imm2Samples == {0, 1, 256, 4660, 65535}

Imm3Samples == {0, 1, 65536, 1193046, 16777215}

AddrSamples ==
  {Addr(0), Addr(7), Addr(8192), Addr(65535), Addr(65536), Addr(1193046),
   Addr(16777215), Label(LabelEnd)}

\* the instructions given to the encoder
Instructions ==
  [name : PairRdRs, rd : Registers, rs : Registers]
    \cup [name : UnaryRd, rd : Registers]
    \cup [name : PushRs, rs : Registers]
    \cup [name : Imm1Rd, rd : Registers, imm : Imm1Samples]
    \cup [name : Imm2Rd, rd : Registers, imm : Imm2Samples]
    \cup [name : Imm3Rd, rd : Registers, imm : Imm3Samples]
    \cup [name : LoadRdAddr, rd : Registers, addr : AddrSamples]
    \cup [name : StoreRsAddr, rs : Registers, addr : AddrSamples]
    \cup [name : JumpAddr, addr : AddrSamples]
    \cup [name : NoOperand]

\* raw memory images, with the address they are placed at
\* JSR 7 / HLT / RTS, for address 0
JsrImage == << 20, 6, 7, 0, 0, 4, 0, 8, 0 >>

\* the program array of rexta-demo1
DemoImage == << 48, 0, 10, 48, 1, 20, 32, 16, 65, 0, 32, 0, 2 >>

Images ==
  {<< 255, 255 >>, << 255, 0 >>, << 0, 0 >>, << 1, 0 >>, << 4, 0 >>,
   << 1, 4, 0, 5, 255, 255 >>, << 255, 15 >>, << 21, 2, 1 >>, JsrImage,
   DemoImage}

\* the counts an earlier run may have left in ic
IcSamples == {0, 5}

ImageBases == {0, 256, 65530}

\* ------------------------------------------------------------------------
\* The state machine
\* ------------------------------------------------------------------------

NoAsm == [status |-> "none", msg |-> "", label |-> << >>, bytes |-> << >>,
          program |-> << >>]

\* no U24 operation applied yet
NoU24Op == [name |-> "none", a |-> 0, rhs |-> 0]

\* Cpu::new(), nothing assembled or encoded yet
Init ==
  /\ pc = 0
  /\ mem = << >>
  /\ regs = [r \in 0 .. NumRegs - 1 |-> 0]
  /\ flags = 0
  /\ sp = InitialSp
  /\ is_running = FALSE
  /\ ir = 0
  /\ ic = 0
  /\ op = Op_new
  /\ fetch_pos = 0
  /\ at = "new"
  /\ result = "none"
  /\ err_code = 0
  /\ panic_msg = ""
  /\ overflow_checks \in BOOLEAN
  /\ text = << >>
  /\ asm = NoAsm
  /\ instr = None
  /\ bytes = << >>
  /\ loaded = "none"
  /\ prev = CpuOf(0, << >>, [r \in 0 .. NumRegs - 1 |-> 0], 0, InitialSp, FALSE)
  /\ before = CpuOf(0, << >>, [r \in 0 .. NumRegs - 1 |-> 0], 0, InitialSp, FALSE)
  /\ u24 = 0
  /\ u24_n = 0
  /\ u24_op = NoU24Op

\* assemble(text) in rexta-asm returned a, or panicked
AssembleTo(t, a) ==
  /\ text' = t
  /\ asm' = a
  /\ bytes' = a.bytes
  /\ IF a.status = "panic"
     THEN at' = "aborted" /\ result' = "panic" /\ panic_msg' = a.msg
     ELSE at' = "assembled" /\ UNCHANGED << result, panic_msg >>
  /\ UNCHANGED << pc, mem, regs, flags, sp, is_running, ir, ic, op, fetch_pos,
                  err_code, overflow_checks, instr, loaded, u24, u24_n,
                  u24_op >>
  /\ UNCHANGED << prev, before >>

Assemble ==
  \E t \in Sources :
    /\ at = "new"
    /\ AssembleTo(t, assemble(t))

\* Instruction::encode on one instruction
Encode ==
  \E i \in Instructions :
    /\ at = "new"
    /\ instr' = i
    /\ IF encode_panics(i)
       THEN /\ at' = "aborted"
            /\ result' = "panic"
            /\ panic_msg' = LabelNotResolved
            /\ bytes' = << >>
       ELSE /\ at' = "encoded"
            /\ bytes' = Instruction_encode(i)
            /\ UNCHANGED << result, panic_msg >>
    /\ UNCHANGED << pc, mem, regs, flags, sp, is_running, ir, ic, op, fetch_pos,
                    err_code, overflow_checks, text, asm, loaded, u24, u24_n,
                  u24_op >>
    /\ UNCHANGED << prev, before >>

\* the caller copies the bytes to address 0 of the fresh Cpu
Load ==
  /\ at \in {"assembled", "encoded"}
  /\ mem' = MemCopy(mem, 0, bytes)
  /\ loaded' = IF at = "assembled" THEN "asm" ELSE "instr"
  /\ at' = "loaded"
  /\ UNCHANGED << pc, regs, flags, sp, is_running, ir, ic, op, fetch_pos,
                  result, err_code, panic_msg, overflow_checks, text, asm,
                  instr, bytes, u24, u24_n,
                  u24_op >>
  /\ UNCHANGED << prev, before >>

\* the caller places a raw image in memory and points pc at it; ic is
\* whatever an earlier run left in it
LoadImage ==
  \E img \in Images, base \in ImageBases, n \in IcSamples :
    /\ at = "new"
    /\ mem_in_bounds(base, Len(img))
    /\ mem' = MemCopy(mem, base, img)
    /\ pc' = base
    /\ ic' = n
    /\ bytes' = img
    /\ loaded' = "image"
    /\ at' = "loaded"
    /\ UNCHANGED << regs, flags, sp, is_running, ir, op, fetch_pos, result,
                    err_code, panic_msg, overflow_checks, text, asm, instr, u24, u24_n,
                  u24_op >>
    /\ UNCHANGED << prev, before >>

\* run(), up to the first test of the loop condition
RunStart ==
  /\ at = "loaded"
  /\ ic' = 0
  /\ is_running' = TRUE
  /\ at' = "fetch"
  /\ UNCHANGED << pc, mem, regs, flags, sp, ir, op, fetch_pos, result, err_code,
                  panic_msg, overflow_checks, text, asm, instr, bytes, loaded, u24, u24_n,
                  u24_op >>
  /\ UNCHANGED << prev, before >>

\* fetch()
Fetch ==
  /\ at = "fetch"
  /\ ic < MaxTicks
  /\ fetch_pos' = pc
  /\ IF mem_in_bounds(pc, 2)
     THEN /\ ir' = BitOr(MemAt(mem, pc), MemAt(mem, pc + 1) * 256)
          /\ pc' = fetch_pc(pc)
          /\ at' = "decode"
          /\ UNCHANGED << result, panic_msg >>
     ELSE /\ at' = "aborted"
          /\ result' = "panic"
          /\ panic_msg' = OutOfBounds
          /\ UNCHANGED << ir, pc >>
  /\ UNCHANGED << mem, regs, flags, sp, is_running, ic, op, err_code,
                  overflow_checks, text, asm, instr, bytes, loaded, u24, u24_n,
                  u24_op >>
  /\ before' = CpuOf(pc, mem, regs, flags, sp, is_running)
  /\ UNCHANGED prev

\* the operand bytes decode reads at p
read_operands(m, p, n) ==
  [k \in 1 .. 4 |-> IF k <= n THEN mem_read(m, p + k - 1) ELSE 0]

\* decode(); on Err tick and run return it
Decode ==
  /\ at = "decode"
  /\ LET n == operand_count(ir)
         code == TryFrom(ir)
     IN  IF code = "Err"
         THEN /\ at' = "returned"
              /\ result' = "InvalidOpCode"
              /\ err_code' = ir
              /\ pc' = decode_fault_pc(pc, n)
              /\ UNCHANGED << op, panic_msg >>
         ELSE IF n > 4 \/ ~mem_in_bounds(pc, n)
         THEN /\ at' = "aborted"
              /\ result' = "panic"
              /\ panic_msg' = OutOfBounds
              /\ pc' = IF mem_in_bounds(pc, n) THEN U24_add(pc, 4) ELSE MemSize
              /\ UNCHANGED << op, err_code >>
         ELSE /\ at' = "execute"
              /\ op' = [code |-> code, operands |-> read_operands(mem, pc, n)]
              /\ pc' = U24_add(pc, n)
              /\ UNCHANGED << result, err_code, panic_msg >>
  /\ UNCHANGED << mem, regs, flags, sp, is_running, ir, ic, fetch_pos,
                  overflow_checks, text, asm, instr, bytes, loaded, u24, u24_n,
                  u24_op >>
  /\ UNCHANGED << prev, before >>

\* execute(op) left the Cpu as c: the count of the cycle and the test of
\* the loop condition follow
ExecuteTo(c) ==
  /\ pc' = c.pc
  /\ mem' = c.mem
  /\ regs' = c.regs
  /\ flags' = c.flags
  /\ sp' = c.sp
  /\ is_running' = c.is_running
  /\ IF c.out = "panic"
     THEN /\ at' = "aborted"
          /\ result' = "panic"
          /\ panic_msg' = c.msg
          /\ UNCHANGED ic
     ELSE /\ ic' = tick_count(ic, c)
          /\ IF c.is_running
             THEN at' = "fetch" /\ UNCHANGED result
             ELSE at' = "returned" /\ result' = "Ok"
          /\ UNCHANGED panic_msg
  /\ UNCHANGED << ir, op, fetch_pos, err_code, overflow_checks, text, asm,
                  instr, bytes, loaded, u24, u24_n,
                  u24_op >>

Execute ==
  /\ at = "execute"
  /\ prev' = CpuOf(pc, mem, regs, flags, sp, is_running)
  /\ UNCHANGED before
  /\ ExecuteTo(execute(op, CpuOf(pc, mem, regs, flags, sp, is_running),
                       overflow_checks))

Next ==
  \/ Assemble
  \/ Encode
  \/ Load
  \/ LoadImage
  \/ RunStart
  \/ Fetch
  \/ Decode
  \/ Execute

Spec == Init /\ [][Next]_vars


\* ------------------------------------------------------------------------
\* One instruction on a Cpu whose registers and flags the caller has set
\* ------------------------------------------------------------------------

\* the registers named in the instructions of this specification
ExecRegisters == {"R0", "R1", "R3", "R7", "R8"}

\* the register files the caller sets (regs is a public field), R0 first
RegFiles ==
  {<< 0, 0, 0, 0, 0, 0, 0, 0, 0 >>,
   << 255, 255, 255, 1, 0, 0, 0, 0, 0 >>,
   << 0, 0, 0, 1, 0, 0, 0, 255, 1 >>,
   << 255, 255, 255, 255, 255, 255, 255, 255, 255 >>,
   << 52, 18, 86, 120, 154, 188, 0, 240, 15 >>,
   << 0, 0, 1, 0, 1, 0, 0, 0, 128 >>}

\* the flag bytes the caller sets (flags is a public field)
FlagBytes == {0, FLAG_ZERO, FLAG_CARRY, FLAG_ZERO + FLAG_CARRY}

\* the instructions execute implements, over these registers
ExecInstructions ==
  [name : {"ADD1", "ADD2", "ADD3", "SUB1", "SUB2", "SUB3", "AND1", "AND2",
           "AND3", "OR1", "OR2", "OR3", "XOR1", "XOR2", "XOR3"},
   rd : ExecRegisters, rs : ExecRegisters]
    \cup [name : {"NOT1", "NOT2", "NOT3", "INC1", "INC2", "INC3", "DEC1",
                  "DEC2", "DEC3"}, rd : ExecRegisters]
    \cup [name : {"ADDI1"}, rd : ExecRegisters, imm : Imm1Samples]
    \cup [name : {"ADDI2"}, rd : ExecRegisters, imm : Imm2Samples]
    \cup [name : {"ADDI3"}, rd : ExecRegisters, imm : Imm3Samples]
    \cup [name : {"LOADI1"}, rd : ExecRegisters, imm : Imm1Samples]
    \cup [name : {"LOADI2"}, rd : ExecRegisters, imm : Imm2Samples]
    \cup [name : {"LOADI3"}, rd : ExecRegisters, imm : Imm3Samples]
    \cup [name : {"STORE1", "STORE2", "STORE3"}, rs : ExecRegisters,
          addr : {a \in AddrSamples : a.kind = "Addr"}]
    \cup [name : {"JMP", "JZ"},
          addr : {a \in AddrSamples : a.kind = "Addr"}]
    \cup [name : {"HLT", "RTS"}]

\* where the caller has placed a stack (sp is a public field)
StackBase == MemSize \div 2

\* the bytes the caller has placed there
StackBytes == << 1, 2, 3, 4 >>

\* the stack pointers an RTS is run with
StackPointers(i) ==
  IF i.name = "RTS" THEN {InitialSp, StackBase} ELSE {InitialSp}

\* Cpu::new(), the registers and flags set by the caller, and the bytes of
\* one encoded instruction copied to address 0
InitExec ==
  \E i \in ExecInstructions, rf \in RegFiles, f \in FlagBytes :
    /\ pc = 0
    /\ mem = MemCopy(MemCopy(<< >>, StackBase, StackBytes), 0,
                     Instruction_encode(i))
    /\ regs = [r \in 0 .. NumRegs - 1 |-> rf[r + 1]]
    /\ flags = f
    /\ sp \in StackPointers(i)
    /\ is_running = FALSE
    /\ ir = 0
    /\ ic = 0
    /\ op = Op_new
    /\ fetch_pos = 0
    /\ at = "loaded"
    /\ result = "none"
    /\ err_code = 0
    /\ panic_msg = ""
    /\ overflow_checks \in BOOLEAN
    /\ text = << >>
    /\ asm = NoAsm
    /\ instr = i
    /\ bytes = Instruction_encode(i)
    /\ loaded = "instr"
    /\ prev = CpuOf(0, << >>, [r \in 0 .. NumRegs - 1 |-> 0], 0, InitialSp,
                    FALSE)
    /\ before = CpuOf(0, << >>, [r \in 0 .. NumRegs - 1 |-> 0], 0, InitialSp,
                      FALSE)
    /\ u24 = 0
    /\ u24_n = 0
    /\ u24_op = NoU24Op

NextExec ==
  \/ RunStart
  \/ Fetch
  \/ Decode
  \/ Execute

SpecExec == InitExec /\ [][NextExec]_vars

\* ------------------------------------------------------------------------
\* The operations of u24.rs applied to one U24 value
\* ------------------------------------------------------------------------

\* u32 arguments, below and above 2^24
U32Samples == {0, 1, 16777215, 16777216, 16777217, 2147483647}

ByteSamples == {0, 1, 255}

\* shift amounts below 32
ShiftSamples == {0, 1, 8, 23, 24, 31}

\* the texts 0, 16777215, 16777216, 4294967295, 4294967296, 0x2000, 2000
U24Texts ==
  {<< "0" >>,
   << "1", "6", "7", "7", "7", "2", "1", "5" >>,
   << "1", "6", "7", "7", "7", "2", "1", "6" >>,
   << "4", "2", "9", "4", "9", "6", "7", "2", "9", "5" >>,
   << "4", "2", "9", "4", "9", "6", "7", "2", "9", "6" >>,
   << "0", "x", "2", "0", "0", "0" >>,
   << "2", "0", "0", "0" >>}

\* a U24 built by U24::new, nothing else touched
InitU24 ==
  /\ pc = 0
  /\ mem = << >>
  /\ regs = [r \in 0 .. NumRegs - 1 |-> 0]
  /\ flags = 0
  /\ sp = InitialSp
  /\ is_running = FALSE
  /\ ir = 0
  /\ ic = 0
  /\ op = Op_new
  /\ fetch_pos = 0
  /\ at = "new"
  /\ result = "none"
  /\ err_code = 0
  /\ panic_msg = ""
  /\ overflow_checks \in BOOLEAN
  /\ text = << >>
  /\ asm = NoAsm
  /\ instr = None
  /\ bytes = << >>
  /\ loaded = "none"
  /\ prev = CpuOf(0, << >>, [r \in 0 .. NumRegs - 1 |-> 0], 0, InitialSp, FALSE)
  /\ before = CpuOf(0, << >>, [r \in 0 .. NumRegs - 1 |-> 0], 0, InitialSp, FALSE)
  /\ u24 \in {U24_new(v) : v \in U32Samples}
  /\ u24_n = 0
  /\ u24_op = NoU24Op

\* the operation `name` with operand rhs replaced the value by v
U24Apply(name, rhs, v) ==
  /\ u24_n < MaxU24Ops
  /\ u24' = v
  /\ u24_n' = u24_n + 1
  /\ u24_op' = [name |-> name, a |-> u24, rhs |-> rhs]
  /\ UNCHANGED machine_vars

U24New == \E v \in U32Samples : U24Apply("new", v, U24_new(v))

U24FromBytes ==
  \E h \in ByteSamples, m \in ByteSamples, l \in ByteSamples :
    U24Apply("from_bytes", 0, U24_from_bytes(h, m, l))

U24FromLeBytes ==
  \E b \in ByteSamples \X ByteSamples \X ByteSamples :
    U24Apply("from_le_bytes", 0, U24_from_le_bytes(b))

U24Add ==
  \E v \in U32Samples : U24Apply("add", U24_new(v), U24_add_U24(u24, U24_new(v)))

U24AddU32 == \E v \in U32Samples : U24Apply("add", v, U24_add(u24, v))

U24Sub ==
  \E v \in U32Samples : U24Apply("sub", U24_new(v), U24_sub_U24(u24, U24_new(v)))

U24SubU32 == \E v \in U32Samples : U24Apply("sub", v, U24_sub(u24, v))

U24AddAssign ==
  \E v \in U32Samples :
    U24Apply("add", U24_new(v), U24_add_assign_U24(u24, U24_new(v)))

U24AddAssignU32 ==
  \E v \in U32Samples : U24Apply("add", v, U24_add_assign(u24, v))

U24SubAssign ==
  \E v \in U32Samples :
    U24Apply("sub", U24_new(v), U24_sub_assign_U24(u24, U24_new(v)))

U24SubAssignU32 ==
  \E v \in U32Samples : U24Apply("sub", v, U24_sub_assign(u24, v))

\* BitAnd, BitOr, BitXor for U24 and for u32
U24BitAnd == \E v \in U32Samples : U24Apply("and", v, U24_bitand(u24, v))

U24BitOr == \E v \in U32Samples : U24Apply("or", v, U24_bitor(u24, v))

U24BitXor == \E v \in U32Samples : U24Apply("xor", v, U24_bitxor(u24, v))

U24Not == U24Apply("not", 0, U24_not(u24))

U24Shl == \E n \in ShiftSamples : U24Apply("shl", n, U24_shl(u24, n))

U24Shr == \E n \in ShiftSamples : U24Apply("shr", n, U24_shr(u24, n))

\* "..".parse::<U24>(): Ok replaces the value, Err leaves it
U24Parsed(v) ==
  IF v = -1 THEN U24Apply("from_str_err", 0, u24) ELSE U24Apply("from_str", 0, v)

U24FromStr == \E s \in U24Texts : U24Parsed(U24_from_str(s))

NextU24 ==
  \/ U24New
  \/ U24FromBytes
  \/ U24FromLeBytes
  \/ U24Add
  \/ U24AddU32
  \/ U24Sub
  \/ U24SubU32
  \/ U24AddAssign
  \/ U24AddAssignU32
  \/ U24SubAssign
  \/ U24SubAssignU32
  \/ U24BitAnd
  \/ U24BitOr
  \/ U24BitXor
  \/ U24Not
  \/ U24Shl
  \/ U24Shr
  \/ U24FromStr

SpecU24 == InitU24 /\ [][NextU24]_vars

\* ------------------------------------------------------------------------
\* The multi-cell register accessors of cpu.rs applied to a register file
\* ------------------------------------------------------------------------

\* the number of writes applied to the register file
MaxRegOps == 2

\* the register indices the accessors are called with, all inside the file
PairIndices == {0, 4, NumRegs - 2}

TripleIndices == {0, 4, NumRegs - 3}

\* a Cpu whose registers the caller has set, nothing else touched
InitReg ==
  /\ pc = 0
  /\ mem = << >>
  /\ \E rf \in RegFiles : regs = [r \in 0 .. NumRegs - 1 |-> rf[r + 1]]
  /\ flags = 0
  /\ sp = InitialSp
  /\ is_running = FALSE
  /\ ir = 0
  /\ ic = 0
  /\ op = Op_new
  /\ fetch_pos = 0
  /\ at = "regs"
  /\ result = "none"
  /\ err_code = 0
  /\ panic_msg = ""
  /\ overflow_checks \in BOOLEAN
  /\ text = << >>
  /\ asm = NoAsm
  /\ instr = None
  /\ bytes = << >>
  /\ loaded = "none"
  /\ prev = CpuOf(0, << >>, [r \in 0 .. NumRegs - 1 |-> 0], 0, InitialSp, FALSE)
  /\ before = CpuOf(0, << >>, [r \in 0 .. NumRegs - 1 |-> 0], 0, InitialSp, FALSE)
  /\ u24 = 0
  /\ u24_n = 0
  /\ u24_op = NoU24Op

\* the write `name` of val at reg left the file rf, and the read that
\* followed it returned back
RegWriteThenRead(name, reg, val, rf, back) ==
  /\ u24_n < MaxRegOps
  /\ regs' = rf
  /\ u24' = back
  /\ u24_n' = u24_n + 1
  /\ instr' = [name |-> name, reg |-> reg, val |-> val]
  /\ prev' = [prev EXCEPT !.regs = regs]
  /\ UNCHANGED << pc, mem, flags, sp, is_running, ir, ic, op, fetch_pos, at,
                  result, err_code, panic_msg, overflow_checks, text, asm,
                  bytes, loaded, before, u24_op >>

\* reg_write2(reg, val) followed by reg_read2(reg)
RegWrite2Read2 ==
  \E reg \in PairIndices, val \in Imm2Samples :
    RegWriteThenRead("reg_write2", reg, val, reg_write2(regs, reg, val),
                     reg_read2(reg_write2(regs, reg, val), reg))

\* reg_write3(reg, val) followed by reg_read3(reg)
RegWrite3Read3 ==
  \E reg \in TripleIndices, val \in Imm3Samples :
    RegWriteThenRead("reg_write3", reg, val, reg_write3(regs, reg, val),
                     reg_read3(reg_write3(regs, reg, val), reg))

NextReg ==
  \/ RegWrite2Read2
  \/ RegWrite3Read3

SpecReg == InitReg /\ [][NextReg]_vars

\* ------------------------------------------------------------------------
\* run() on a memory image, from where the caller has set pc
\* ------------------------------------------------------------------------

\* two 3-byte instructions (INC R0 twice)
TwoIncrements == << 25, 2, 0, 25, 2, 0 >>

\* LOADI R0, 5 followed by the opcode word of another LOADI
LoadThenLoad == << 1, 4, 0, 5, 1, 4 >>

\* the images run: raw ones, the demo, and what three sources assemble to
RunImages ==
  Images \cup {TwoIncrements, LoadThenLoad, assemble(SrcSumDec).bytes,
               assemble(SrcLabels).bytes, assemble(SrcComments).bytes}

\* a fresh Cpu with an image copied into its memory and pc set to it
InitRun ==
  \E img \in RunImages, base \in ImageBases :
    /\ mem_in_bounds(base, Len(img))
    /\ pc = base
    /\ mem = MemCopy(<< >>, base, img)
    /\ regs = [r \in 0 .. NumRegs - 1 |-> 0]
    /\ flags = 0
    /\ sp = InitialSp
    /\ is_running = FALSE
    /\ ir = 0
    /\ ic \in IcSamples
    /\ op = Op_new
    /\ fetch_pos = 0
    /\ at = "loaded"
    /\ result = "none"
    /\ err_code = 0
    /\ panic_msg = ""
    /\ overflow_checks \in BOOLEAN
    /\ text = << >>
    /\ asm = NoAsm
    /\ instr = None
    /\ bytes = img
    /\ loaded = "image"
    /\ prev = CpuOf(0, << >>, [r \in 0 .. NumRegs - 1 |-> 0], 0, InitialSp,
                    FALSE)
    /\ before = CpuOf(0, << >>, [r \in 0 .. NumRegs - 1 |-> 0], 0, InitialSp,
                      FALSE)
    /\ u24 = 0
    /\ u24_n = 0
    /\ u24_op = NoU24Op

\* run() is a sequential loop: each of its steps is taken once it can be
SpecRun ==
  InitRun /\ [][NextExec]_vars /\ WF_vars(RunStart) /\ WF_vars(Fetch)
    /\ WF_vars(Decode) /\ WF_vars(Execute)
\* ------------------------------------------------------------------------
\* Properties
\* ------------------------------------------------------------------------

\* `bytes` is the encoding of `instr`
Encoded == at # "new" /\ instr # None /\ ~encode_panics(instr)

\* the first cycle of run has fetched and decoded the encoding of `instr`
Decoded == Encoded /\ loaded = "instr" /\ at = "execute" /\ ic = 0

\* C1: the encoder emits, after the two opcode bytes, (code >> 9) & 7 operand
\* bytes, the number the decoder consumes: encode(i).len() = i.length() =
\* 2 + ((code >> 9) & 7), at most 4 operand bytes for every code the table
\* accepts, and after decoding pc is at the first byte after the instruction.
C1_LengthContract ==
  /\ \A p \in TryFromTable : (p[1] \div 512) % 8 <= 4
  /\ Encoded =>
       /\ Len(bytes) - 2 = (OpCode[Instruction_opcode(instr)] \div 512) % 8
       /\ Len(bytes) = Instruction_length(instr)
       /\ Len(bytes) - 2 <= 4
  /\ (Encoded /\ loaded = "instr" /\ ic = 0) => at # "returned"
  /\ Decoded =>
       /\ ir = OpCode[Instruction_opcode(instr)]
       /\ pc - (fetch_pos + 2) = Len(bytes) - 2
       /\ pc = fetch_pos + Len(bytes)

\* a four-operand instruction was encoded, loaded and decoded
C1_Witness == Decoded /\ Len(bytes) = 6

\* C2: the immediate or address the CPU rebuilds from the operand bytes is
\* the one given to the encoder, for every 1-, 2- and 3-byte immediate and
\* every 24-bit address.
C2_OperandRoundTrip ==
  Decoded =>
    /\ instr.name \in Imm1Rd => ImmOperand(op, 1) = instr.imm
    /\ instr.name \in Imm2Rd => ImmOperand(op, 2) = instr.imm
    /\ instr.name \in Imm3Rd => ImmOperand(op, 3) = instr.imm
    /\ instr.name \in StoreRsAddr => StoreAddress(op) = instr.addr.val
    /\ instr.name \in {"JMP", "JZ"} => JumpTarget(op) = instr.addr.val

\* enum Register in the order of its declaration: Rk is the k-th cell
RegisterOrder == << "R0", "R1", "R2", "R3", "R4", "R5", "R6", "R7", "R8" >>

Ordinal(r) == (CHOOSE k \in 1 .. 9 : RegisterOrder[k] = r) - 1

\* C3: the register indices the CPU extracts from the first operand byte
\* (rd from the high nibble, rs from the low nibble) are the registers given
\* to the encoder: both for register pairs, rd for unary, LOADI and ADDI
\* instructions, rs for PUSH and STORE.
C3_RegisterRoundTrip ==
  Decoded =>
    /\ instr.name \in PairRdRs =>
         Op_rd(op) = Ordinal(instr.rd) /\ Op_rs(op) = Ordinal(instr.rs)
    /\ instr.name \in UnaryRd \cup Imm1Rd \cup Imm2Rd \cup Imm3Rd =>
         Op_rd(op) = Ordinal(instr.rd)
    /\ instr.name \in PushRs \cup StoreRsAddr => Op_rs(op) = Ordinal(instr.rs)

\* a register pair with the boundary register R8 as destination was decoded
C3_Witness ==
  Decoded /\ instr.name \in PairRdRs /\ instr.rd = "R8" /\ instr.rs = "R7"

\* C4: the opcode table is a bijection: every operation of the enumeration,
\* NOP included, has one code that try_from decodes to that operation, no
\* two operations share a code, and every code that decodes converts back to
\* itself.
C4_OpcodeBijection ==
  /\ \A a, b \in OpCodeNames : OpCode[a] = OpCode[b] => a = b
  /\ \A p \in TryFromTable : p[2] \in OpCodeNames /\ OpCode[p[2]] = p[1]
  /\ at = "execute" => OpCode[op.code] = ir
  /\ (at = "returned" /\ result = "InvalidOpCode") =>
       \A o \in OpCodeNames : OpCode[o] # err_code

\* C5: the five-line program assembles with every line contributing its
\* instruction, and run() on it ends Ok, halted, with memory[0x2000] = 30.
C5_SumProgram ==
  (text = SrcSumHex /\ at \in {"returned", "aborted"}) =>
    /\ Len(asm.program) = 5
    /\ result = "Ok"
    /\ ~is_running
    /\ MemAt(mem, 8192) = 30

\* C6: when the word fetched at address A is no known opcode, run() returns
\* InvalidOpCode with that word and pc equals A.
C6_FaultAtOpcode ==
  (at = "returned" /\ result = "InvalidOpCode"
     /\ \A o \in OpCodeNames : OpCode[o] # ir) =>
    /\ err_code = BitOr(MemAt(mem, fetch_pos), MemAt(mem, fetch_pos + 1) * 256)
    /\ pc = fetch_pos

\* C7: run() ends only by halting with Ok or by returning a typed CpuError,
\* never in a program abort.
C7_NoAbort == loaded # "none" => at # "aborted"

\* the offset pass 1 records for the label `end` of the source text
EndOffset == create_label_map(source_lines(text))[LabelEnd]

\* C8: a label referenced before the line that defines it is resolved in
\* pass 2 to its pass-1 offset, and the bytes of the referencing instruction
\* carry that offset.
C8_ForwardReference ==
  (text = SrcForward /\ at # "new") =>
    /\ asm.status = "ok"
    /\ asm.program[1].addr = Addr(EndOffset)
    /\ SubSeq(bytes, 3, 5) = U24_to_le_bytes(EndOffset)

\* the label operands of the instruction lines of the text
LabelOperands(t) ==
  {p.addr.name : p \in {q \in {parse_line(l) : l \in
      {source_lines(t)[k] : k \in 1 .. Len(source_lines(t))}} :
        q.name \in HasAddr /\ q.addr.kind = "Label"}}

\* C9: pass 2 replaces every label operand, on whichever instruction it
\* appears, with the address pass 1 recorded, before the instruction is
\* encoded: every instruction handed to the encoder has a resolved address.
C9_EveryLabelResolved ==
  (at # "new" /\ text # << >>
     /\ LabelOperands(text) \subseteq DOMAIN create_label_map(source_lines(text)))
  => /\ asm.status = "ok"
     /\ \A k \in 1 .. Len(asm.program) :
          asm.program[k].name \in HasAddr => asm.program[k].addr.kind = "Addr"

\* C10: a reference to a label no line defines fails the assembly with an
\* unknown-label error naming the label, with no output bytes.
C10_UnknownLabelNamed ==
  (at # "new" /\ text # << >>)
  => \A n \in LabelOperands(text) \ DOMAIN create_label_map(source_lines(text)) :
       /\ asm.status = "panic"
       /\ asm.msg = UnknownLabel
       /\ asm.label = n
       /\ bytes = << >>


\* ------------------------------------------------------------------------
\* Properties of execute
\* ------------------------------------------------------------------------

\* the first cycle of run has executed the encoding of `instr`, or aborted
\* in execute, and nothing has happened since
Executed ==
  /\ loaded = "instr"
  /\ prev.is_running
  /\ \/ ic = 1 /\ at = "fetch"
     \/ ic = 1 /\ at = "returned" /\ result = "Ok"
     \/ ic = 0 /\ at = "aborted"

\* the operand width of an arithmetic or logic instruction, from its name
InstrWidth(i) ==
  CHOOSE w \in 1 .. 3 :
    \E F \in {F_ADD, F_SUB, F_AND, F_OR, F_XOR, F_NOT, F_ADDI, F_INC, F_DEC} :
      F[w] = i.name

\* the w cells from register r on exist
CellsExist(r, w) == Ordinal(r) + w <= NumRegs

\* the unsigned value of the w cells from register r on, low cell first
CellsValue(rf, r, w) ==
  LET k == Ordinal(r)
  IN  CASE w = 1 -> rf[k]
        [] w = 2 -> rf[k] + 256 * rf[k + 1]
        [] w = 3 -> rf[k] + 256 * rf[k + 1] + 65536 * rf[k + 2]

ZeroSet(f) == (f \div FLAG_ZERO) % 2 = 1

CarrySet(f) == (f \div FLAG_CARRY) % 2 = 1

\* C11: JSR to a subroutine that returns with RTS brings pc back to the
\* instruction after the JSR and sp back to its value before the call: the
\* program JSR 7 / HLT / RTS at address 0 ends in the HLT at 5, with Ok,
\* pc = 7 and sp as it was.
C11_CallReturn ==
  (loaded = "image" /\ bytes = JsrImage /\ MemAt(mem, 0) = 20
     /\ at \in {"returned", "aborted"}) =>
    /\ result = "Ok"
    /\ pc = 7
    /\ sp = InitialSp

\* C12: ADD and ADDI at width w store (a + b) mod 2^(8w) in the destination,
\* set ZERO iff the stored result is 0 and CARRY iff a + b >= 2^(8w).
C12_Add ==
  (Executed /\ instr.name \in {"ADD1", "ADD2", "ADD3", "ADDI1", "ADDI2", "ADDI3"}
     /\ CellsExist(instr.rd, InstrWidth(instr))
     /\ (instr.name \in {"ADD1", "ADD2", "ADD3"} =>
           CellsExist(instr.rs, InstrWidth(instr)))) =>
    LET w == InstrWidth(instr)
        a == CellsValue(prev.regs, instr.rd, w)
        b == IF instr.name \in {"ADD1", "ADD2", "ADD3"}
             THEN CellsValue(prev.regs, instr.rs, w)
             ELSE instr.imm
    IN  /\ at # "aborted"
        /\ CellsValue(regs, instr.rd, w) = (a + b) % Modulus(w)
        /\ ZeroSet(flags) <=> (a + b) % Modulus(w) = 0
        /\ CarrySet(flags) <=> a + b >= Modulus(w)

\* C13: SUB at width w stores (a - b) mod 2^(8w) for all operands, a < b
\* included, sets CARRY iff a < b and ZERO iff the stored result is 0, and
\* execution continues.
C13_Sub ==
  (Executed /\ instr.name \in {"SUB1", "SUB2", "SUB3"}
     /\ CellsExist(instr.rd, InstrWidth(instr))
     /\ CellsExist(instr.rs, InstrWidth(instr))) =>
    LET w == InstrWidth(instr)
        a == CellsValue(prev.regs, instr.rd, w)
        b == CellsValue(prev.regs, instr.rs, w)
    IN  /\ at = "fetch"
        /\ CellsValue(regs, instr.rd, w) = (a - b) % Modulus(w)
        /\ ZeroSet(flags) <=> (a - b) % Modulus(w) = 0
        /\ CarrySet(flags) <=> a < b

\* C14: INC stores (a + 1) mod 2^(8w) with CARRY iff a was 2^(8w) - 1; DEC
\* stores (a - 1) mod 2^(8w) for every a, 0 included, with CARRY iff a was
\* 0; both set ZERO iff the stored result is 0.
C14_IncDec ==
  (Executed /\ instr.name \in {"INC1", "INC2", "INC3", "DEC1", "DEC2", "DEC3"}
     /\ CellsExist(instr.rd, InstrWidth(instr))) =>
    LET w == InstrWidth(instr)
        a == CellsValue(prev.regs, instr.rd, w)
        d == IF instr.name \in {"INC1", "INC2", "INC3"} THEN 1 ELSE -1
    IN  /\ at # "aborted"
        /\ CellsValue(regs, instr.rd, w) = (a + d) % Modulus(w)
        /\ ZeroSet(flags) <=> (a + d) % Modulus(w) = 0
        /\ CarrySet(flags) <=> (IF d = 1 THEN a = Modulus(w) - 1 ELSE a = 0)

\* the bitwise result of a logic instruction on a and b
BitwiseResult(name, a, b, w) ==
  CASE InFam(name, F_AND) -> BitAnd(a, b)
    [] InFam(name, F_OR) -> BitOr(a, b)
    [] InFam(name, F_XOR) -> BitXor(a, b)
    [] InFam(name, F_NOT) -> Modulus(w) - 1 - a

\* C15: AND, OR, XOR and NOT at every width store the bitwise result in the
\* destination cells, set ZERO iff it is 0, and leave CARRY clear whatever
\* it was before.
C15_Bitwise ==
  (Executed /\ (InFam(instr.name, F_AND) \/ InFam(instr.name, F_OR)
                  \/ InFam(instr.name, F_XOR) \/ InFam(instr.name, F_NOT))
     /\ CellsExist(instr.rd, InstrWidth(instr))
     /\ (~InFam(instr.name, F_NOT) => CellsExist(instr.rs, InstrWidth(instr)))) =>
    LET w == InstrWidth(instr)
        a == CellsValue(prev.regs, instr.rd, w)
        b == IF InFam(instr.name, F_NOT) THEN 0
             ELSE CellsValue(prev.regs, instr.rs, w)
        v == BitwiseResult(instr.name, a, b, w)
    IN  /\ at = "fetch"
        /\ CellsValue(regs, instr.rd, w) = v
        /\ ZeroSet(flags) <=> v = 0
        /\ ~CarrySet(flags)

\* XOR of a register pair with itself while CARRY was set: result 0
C15_Witness ==
  /\ Executed
  /\ instr.name = "XOR2"
  /\ instr.rd = "R7" /\ instr.rs = "R7"
  /\ CellsValue(prev.regs, "R7", 2) = 65535
  /\ CarrySet(prev.flags)
  /\ ~ZeroSet(prev.flags)

\* ------------------------------------------------------------------------
\* Properties of U24
\* ------------------------------------------------------------------------

\* C16: after any sequence of U24 constructions and operations the value is
\* in [0, 2^24), and additions and subtractions are taken modulo 2^24:
\* U24(0xFFFFFF) + 1 = U24(0) and U24(0) - 1 = U24(0xFFFFFF).
C16_U24Range ==
  /\ u24 \in 0 .. 16777215
  /\ u24_op.name = "add" =>
       u24 = (u24_op.a + (u24_op.rhs % 16777216)) % 16777216
  /\ u24_op.name = "sub" =>
       u24 = (u24_op.a - (u24_op.rhs % 16777216)) % 16777216

\* U24(0xFFFFFF) + 1 was computed, after another operation
C16_Witness ==
  /\ u24_n = 2
  /\ u24_op = [name |-> "add", a |-> 16777215, rhs |-> 1]
  /\ u24 = 0

\* the program of the decimal text, as assemble returns it
SumDecBytes == assemble(SrcSumDec).bytes

\* C17: numbers are accepted in decimal and in 0x-prefixed hexadecimal:
\* parsing 0x2000 as a U24 gives 8192, and the source with the address
\* written 0x2000 assembles to the bytes of the source with 8192, no line
\* dropped.
C17_HexLiterals ==
  (text = SrcSumHex /\ at # "new") =>
    /\ U24_from_str(<< "0", "x", "2", "0", "0", "0" >>) = 8192
    /\ asm.status = "ok"
    /\ Len(asm.program) = 5
    /\ bytes = SumDecBytes

\* ------------------------------------------------------------------------
\* Properties of run
\* ------------------------------------------------------------------------

\* C19: a fresh Cpu has pc = 0, sp = 0xFFFE, flags 0, registers and memory
\* all 0 and is not running; run() marks it running, and once HLT is
\* executed run has returned Ok with the Cpu stopped, pc just past the HLT
\* opcode, and nothing is executed afterwards.
C19_FreshAndHalt ==
  /\ [](at = "new" =>
          /\ pc = 0 /\ sp = 65534 /\ flags = 0 /\ ~is_running
          /\ \A r \in 0 .. 8 : regs[r] = 0
          /\ \A a \in 0 .. 65535 : MemAt(mem, a) = 0)
  /\ [](at \in {"fetch", "decode", "execute"} => is_running)
  /\ []((op.code = "HLT" /\ at \in {"fetch", "returned", "aborted"}) =>
          /\ at = "returned" /\ result = "Ok"
          /\ ~is_running
          /\ pc = fetch_pos + 2)
  /\ [][at # "returned"]_vars

\* run() returned Ok from a HLT placed at address 256
C19_Witness ==
  /\ at = "returned" /\ result = "Ok"
  /\ op.code = "HLT"
  /\ loaded = "image" /\ fetch_pos = 256 /\ pc = 258

\* C20: JMP sets pc to its address operand; JZ sets pc to its address
\* operand when ZERO is set and otherwise leaves it 5 bytes past the start
\* of the JZ.
C20_Jumps ==
  (Executed /\ instr.name \in {"JMP", "JZ"}) =>
    /\ at = "fetch"
    /\ instr.name = "JMP" => pc = instr.addr.val
    /\ instr.name = "JZ" =>
         pc = IF ZeroSet(prev.flags) THEN instr.addr.val ELSE fetch_pos + 5

\* a JZ with ZERO clear and CARRY set fell through
C20_Witness ==
  /\ Executed /\ instr.name = "JZ"
  /\ ~ZeroSet(prev.flags) /\ CarrySet(prev.flags)
  /\ instr.addr.val = 65536
  /\ pc = 5

\* ------------------------------------------------------------------------
\* Properties of one cycle
\* ------------------------------------------------------------------------

\* execute has just returned Ok for the instruction held in `op`
Cycled ==
  /\ prev.is_running
  /\ \/ at = "fetch" /\ ic >= 1
     \/ at = "returned" /\ result = "Ok"

\* C21: for every successfully executed instruction other than JMP, a taken
\* JZ and RTS, one cycle moves pc forward by the encoded length of the
\* instruction, 2 + ((opcode >> 9) & 7) bytes.
C21_PcAdvance ==
  (Cycled /\ op.code \notin {"JMP", "RTS"}
     /\ ~(op.code = "JZ" /\ ZeroSet(prev.flags))) =>
    pc = fetch_pos + 2 + ((ir \div 512) % 8)

\* a four-operand instruction was executed and pc is six bytes on
C21_Witness ==
  /\ Cycled /\ Executed
  /\ instr.name = "LOADI3"
  /\ fetch_pos = 0 /\ pc = 6

\* C22: LOADI at width w writes the immediate into the destination cells,
\* low byte first, sets ZERO iff the immediate is 0 and clears CARRY; at
\* width 3 the cells hold the three bytes of every 24-bit immediate.
C22_LoadImmediate ==
  (Executed /\ instr.name \in {"LOADI1", "LOADI2", "LOADI3"}
     /\ CellsExist(instr.rd, WidthIn(instr.name, F_LOADI))) =>
    LET w == WidthIn(instr.name, F_LOADI)
    IN  /\ at = "fetch"
        /\ CellsValue(regs, instr.rd, w) = instr.imm
        /\ ZeroSet(flags) <=> instr.imm = 0
        /\ ~CarrySet(flags)

\* C23: STORE at width w copies the source cells to memory at the address
\* operand, low byte first, changes no other memory byte, and leaves ZERO
\* set iff the stored value is 0 and CARRY clear.
C23_Store ==
  (Executed /\ instr.name \in {"STORE1", "STORE2", "STORE3"}
     /\ CellsExist(instr.rs, WidthIn(instr.name, F_STORE))
     /\ instr.addr.val + WidthIn(instr.name, F_STORE) <= MemSize) =>
    LET w == WidthIn(instr.name, F_STORE)
        v == CellsValue(prev.regs, instr.rs, w)
        target == instr.addr.val .. instr.addr.val + w - 1
    IN  /\ at = "fetch"
        /\ \A k \in 0 .. w - 1 :
             MemAt(mem, instr.addr.val + k) = (v \div (256 ^ k)) % 256
        /\ \A a \in (DOMAIN mem \cup DOMAIN prev.mem) \ target :
             MemAt(mem, a) = MemAt(prev.mem, a)
        /\ ZeroSet(flags) <=> v = 0
        /\ ~CarrySet(flags)

\* the register operands of an instruction, each with the width it is
\* accessed at
RegisterOperands(i) ==
  LET w == IF i.name \in {"LOADI1", "LOADI2", "LOADI3"}
           THEN WidthIn(i.name, F_LOADI)
           ELSE IF i.name \in {"STORE1", "STORE2", "STORE3"}
           THEN WidthIn(i.name, F_STORE)
           ELSE InstrWidth(i)
  IN  {<< i[f], w >> : f \in DOMAIN i \cap {"rd", "rs"}}

\* C24: an operand whose register index plus width exceeds the 9-cell file
\* ends in an error, is not wrapped onto another cell and leaves the
\* register file unchanged, also when the assembler produced it.
C24_RegisterBound ==
  (Executed /\ DOMAIN instr \cap {"rd", "rs"} # {}
     /\ \E p \in RegisterOperands(instr) : ~CellsExist(p[1], p[2])) =>
    /\ at \in {"aborted", "returned"}
    /\ result # "Ok"
    /\ regs = prev.regs

\* C25: in the operand byte of a register-pair instruction the destination
\* is the low nibble and the source the high nibble, in the encoder and in
\* the accessors of the CPU.
C25_NibbleOrder ==
  (Decoded /\ instr.name \in PairRdRs) =>
    /\ bytes[3] % 16 = Ordinal(instr.rd)
    /\ bytes[3] \div 16 = Ordinal(instr.rs)
    /\ Op_rd(op) = op.operands[1] % 16
    /\ Op_rs(op) = op.operands[1] \div 16

\* C29: RTS raises sp by the number of bytes of the return address it
\* reads, reads them from the slots it pops, and sets pc to the address
\* they form (in either byte order).
C29_ReturnPop ==
  (Executed /\ instr.name = "RTS") =>
    /\ at = "fetch"
    /\ \E n \in 2 .. 3 :
         /\ sp = prev.sp + n
         /\ LET b == [k \in 0 .. n - 1 |-> MemAt(prev.mem, prev.sp + k)]
            IN  \/ pc = IF n = 2 THEN b[0] + 256 * b[1]
                        ELSE b[0] + 256 * b[1] + 65536 * b[2]
                \/ pc = IF n = 2 THEN b[1] + 256 * b[0]
                        ELSE b[2] + 256 * b[1] + 65536 * b[0]

\* C30: NOP, HLT, JMP, JZ (taken or not) and RTS leave ZERO, CARRY and
\* every register as they were.
C30_FlagsPersist ==
  ((Cycled \/ Executed) /\ op.code \in {"NOP", "HLT", "JMP", "JZ", "RTS"}
     /\ at # "decode") =>
    /\ flags = prev.flags
    /\ regs = prev.regs

\* a taken JZ with both flags set, over registers that are not zero
C30_Witness ==
  /\ Executed /\ instr.name = "JZ"
  /\ prev.flags = 3 /\ flags = 3
  /\ pc = 8192
  /\ regs[0] = 52

\* ------------------------------------------------------------------------
\* Properties of the assembler's two passes
\* ------------------------------------------------------------------------

\* line k of ls is the last definition of its label
BindsLabel(ls, k) ==
  /\ ends_with_char(ls[k], ":")
  /\ \A j \in k + 1 .. Len(ls) :
       ends_with_char(ls[j], ":") =>
         trim_end_matches(ls[j], ":") # trim_end_matches(ls[k], ":")

\* the bytes of out from the offset on
From(out, offset) == SubSeq(out, offset + 1, Len(out))

\* C26: the address pass 1 binds to a label is the offset, in the final
\* output, of the first instruction emitted after the label line: what the
\* output holds from that offset on is the encoding of the lines after it.
C26_LabelOffsets ==
  (at = "assembled" /\ text # << >>) =>
    LET ls == source_lines(text)
        labels == create_label_map(ls)
    IN  \A k \in 1 .. Len(ls) :
          BindsLabel(ls, k) =>
            /\ labels[trim_end_matches(ls[k], ":")] <= Len(asm.bytes)
            /\ From(asm.bytes, labels[trim_end_matches(ls[k], ":")])
                 = assemble_lines(SubSeq(ls, k + 1, Len(ls))).bytes

\* the source with two labels, each behind a dropped line, was assembled:
\* mid is bound to 4 and end to 12, where HLT is
C26_Witness ==
  /\ at = "assembled" /\ text = SrcLabels
  /\ create_label_map(source_lines(text))[LabelMid] = 4
  /\ create_label_map(source_lines(text))[LabelEnd] = 12
  /\ From(asm.bytes, 12) = << 4, 0 >>

\* line k of the raw lines is neither empty, nor a label, nor parsed
Unparseable(raw, k) ==
  LET l == trim(split(raw[k], {";"})[1])
  IN  l # << >> /\ ~ends_with_char(l, ":") /\ parse_line(l) = None

\* the lines without line k
Without(raw, k) == SubSeq(raw, 1, k - 1) \o SubSeq(raw, k + 1, Len(raw))

\* C27: a line that matches no mnemonic and operand grammar is skipped
\* without error: assembling gives what the source without that line
\* gives, the same bytes or the same failure, and the same label offsets.
C27_UnparseableSkipped ==
  (at \in {"assembled", "aborted"} /\ text # << >>) =>
    \A k \in 1 .. Len(lines(text)) :
      Unparseable(lines(text), k) =>
        /\ assemble(Text(Without(lines(text), k))) = asm
        /\ create_label_map(source_lines(Text(Without(lines(text), k))))
             = create_label_map(source_lines(text))

\* the source with an unknown mnemonic and a LOADI without its immediate
\* was assembled into the 14 bytes of its four other instructions
C27_Witness ==
  /\ at = "assembled" /\ text = SrcLabels
  /\ Unparseable(lines(text), 2) /\ Unparseable(lines(text), 5)
  /\ Len(asm.bytes) = 14

\* the width a suffix selects: 1 for none and ".1", 2 for ".2", 3 for
\* ".3", 0 (no variant) for any other
SelectedWidth(suffix) ==
  CASE suffix \in {<< >>, << ".", "1" >>} -> 1
    [] suffix = << ".", "2" >> -> 2
    [] suffix = << ".", "3" >> -> 3
    [] OTHER -> 0

\* the instruction the operands of OperandText stand for
Written(m, w) ==
  CASE m.kind = "rd_rs" -> [name |-> m.variants[w], rd |-> "R0", rs |-> "R1"]
    [] m.kind = "rd" -> [name |-> m.variants[w], rd |-> "R0"]
    [] m.kind = "rs" -> [name |-> m.variants[w], rs |-> "R1"]
    [] m.kind = "rd_addr" ->
         [name |-> m.variants[w], rd |-> "R0", addr |-> Addr(8192)]
    [] m.kind = "rs_addr" ->
         [name |-> m.variants[w], rs |-> "R1", addr |-> Addr(8192)]
    [] m.kind = "rd_imm" -> [name |-> m.variants[w], rd |-> "R0", imm |-> 7]

\* C28: mnemonics and register names are matched in any case, no suffix
\* selects the width-1 variant as ".1" does, ".2" and ".3" select the 2-
\* and 3-byte variants of the family, any other suffix selects nothing.
C28_CaseAndWidth ==
  (at \in {"assembled", "aborted"} /\ text # << >>) =>
    \A m \in WidthFamilies, s \in SuffixSamples, sep \in OperandSeparators,
       lower \in BOOLEAN :
      text = MnemonicLine(m, s, sep, lower) =>
        /\ asm.status = "ok"
        /\ IF SelectedWidth(s) = 0
           THEN asm.program = << >> /\ asm.bytes = << >>
           ELSE /\ asm.program = << Written(m, SelectedWidth(s)) >>
                /\ asm.bytes
                     = Instruction_encode(Written(m, SelectedWidth(s)))

\* "add.2 r0,r1" was assembled into ADD2 R0, R1
C28_Witness ==
  /\ at = "assembled"
  /\ text = Text(<< << "a", "d", "d", ".", "2", " ", "r", "0", ",", "r", "1" >> >>)
  /\ asm.program = << [name |-> "ADD2", rd |-> "R0", rs |-> "R1"] >>

\* ------------------------------------------------------------------------
\* Properties of the output, the register accessors and the run loop
\* ------------------------------------------------------------------------

\* line l with its comment cut off and trimmed, as assemble cleans it
Cleaned(l) == trim(split(l, {";"})[1])

\* the line is one whose instruction is emitted
Emits(l) ==
  Cleaned(l) # << >> /\ ~ends_with_char(Cleaned(l), ":")
    /\ parse_line(Cleaned(l)) # None

RECURSIVE Concatenated(_)
\* the encodings of the lines that parse, in the order of the lines
Concatenated(raw) ==
  IF raw = << >> THEN << >>
  ELSE (IF Emits(Head(raw))
        THEN Instruction_encode(parse_line(Cleaned(Head(raw))))
        ELSE << >>) \o Concatenated(Tail(raw))

RECURSIVE SumOfLengths(_)
\* the sum of length() over the lines that parse
SumOfLengths(raw) ==
  IF raw = << >> THEN 0
  ELSE (IF Emits(Head(raw))
        THEN Instruction_length(parse_line(Cleaned(Head(raw))))
        ELSE 0) + SumOfLengths(Tail(raw))

\* C31: the assembled output is the concatenation, in source order, of the
\* encodings of exactly the lines that parse; comments, blank lines and
\* labels emit nothing, and its length is the sum of length() over them.
C31_OutputIsConcatenation ==
  (at = "assembled" /\ text # << >>) =>
    /\ asm.bytes = Concatenated(lines(text))
    /\ Len(asm.bytes) = SumOfLengths(lines(text))

\* the source with comments, blank lines and a label gave the 9 bytes of
\* LOADI R0, 10 / INC R0 / HLT
C31_Witness ==
  /\ at = "assembled" /\ text = SrcComments
  /\ Len(asm.bytes) = 9
  /\ SubSeq(asm.bytes, 1, 4) = << 1, 4, 0, 10 >>
  /\ SubSeq(asm.bytes, 8, 9) = << 4, 0 >>

\* the width of the last register write
WrittenWidth == IF instr.name = "reg_write2" THEN 2 ELSE 3

\* C32: for r + width <= 9, reg_write2 / reg_write3 at r followed by
\* reg_read2 / reg_read3 at r returns the written value, with the low byte
\* in cell r, the high byte in cell r + width - 1, and no other cell changed.
C32_RegisterLittleEndian ==
  (at = "regs" /\ u24_n >= 1) =>
    /\ u24 = instr.val
    /\ \A k \in 0 .. WrittenWidth - 1 :
         regs[instr.reg + k] = (instr.val \div (256 ^ k)) % 256
    /\ \A c \in 0 .. NumRegs - 1 :
         (c < instr.reg \/ c >= instr.reg + WrittenWidth) =>
           regs[c] = prev.regs[c]

\* 0x1234 was written to the last pair of a file of 0xFF cells and read back
C32_Witness ==
  /\ at = "regs" /\ u24_n >= 1
  /\ instr = [name |-> "reg_write2", reg |-> 7, val |-> 4660]
  /\ u24 = 4660
  /\ regs[7] = 52 /\ regs[8] = 18 /\ regs[6] = 255

\* the instruction given to the encoder carries a label as its address
HasLabelOperand(i) == "addr" \in DOMAIN i /\ i.addr.kind = "Label"

\* C33: encoding an instruction whose address operand is an unresolved
\* label (LOAD, STORE or a jump) fails loudly and returns no bytes; for every
\* other instruction it returns the opcode word and the operand bytes and
\* touches nothing else.
C33_EncodeLabel ==
  (loaded = "none" /\ instr # None /\ at \in {"encoded", "aborted"}) =>
    /\ HasLabelOperand(instr) =>
         /\ at = "aborted"
         /\ result = "panic"
         /\ panic_msg = "Label not resolved"
         /\ bytes = << >>
    /\ ~HasLabelOperand(instr) =>
         /\ at = "encoded"
         /\ Len(bytes) = Instruction_length(instr)
         /\ SubSeq(bytes, 1, 2) = Instruction_opcode_bytes(instr)
    /\ pc = 0 /\ mem = << >> /\ sp = InitialSp /\ flags = 0
    /\ \A r \in 0 .. NumRegs - 1 : regs[r] = 0
    /\ text = << >> /\ asm = NoAsm

\* STORE3 with a label operand was given to the encoder, which panicked
C33_Witness ==
  /\ at = "aborted" /\ loaded = "none"
  /\ instr # None /\ HasLabelOperand(instr)
  /\ instr.name = "STORE3"
  /\ panic_msg = "Label not resolved"

\* C34: after run() returns, with Ok after HLT or with an error after a
\* fault, the Cpu is not marked running; is_running is true only while
\* run() executes its loop.
C34_NotRunningAfterRun ==
  /\ at = "returned" => ~is_running
  /\ is_running => at \in {"fetch", "decode", "execute", "aborted"}

\* C35: when run() returns InvalidOpCode, registers, flags, sp and memory
\* are as they were before the faulting fetch and no operand byte of the
\* invalid word was consumed: only pc (two bytes on) and ir differ.
C35_FaultFrame ==
  (at = "returned" /\ result = "InvalidOpCode") =>
    /\ regs = before.regs
    /\ flags = before.flags
    /\ sp = before.sp
    /\ mem = before.mem
    /\ is_running = before.is_running
    /\ fetch_pos = before.pc
    /\ pc = before.pc + 2
    /\ ir = BitOr(MemAt(mem, before.pc), MemAt(mem, before.pc + 1) * 256)

\* the word 0xFFFF, whose operand count bits are all set, faulted at
\* address 256 and pc is 258
C35_Witness ==
  /\ at = "returned" /\ result = "InvalidOpCode"
  /\ ir = 65535 /\ operand_count(ir) = 7
  /\ before.pc = 256 /\ pc = 258

\* the instructions placed at address 0 by the assembler or the encoder
Program ==
  IF loaded = "asm" THEN asm.program
  ELSE IF loaded = "instr" THEN << instr >>
  ELSE << >>

\* no instruction of the program changes pc when executed
StraightLine ==
  \A k \in 1 .. Len(Program) : Program[k].name \notin JumpAddr \cup {"RTS"}

\* the instructions of the program that lie before address a are its first
\* n, which end at a
EndsAt(n, a) == Len(encode_all(SubSeq(Program, 1, n))) = a

\* the image of LOADI R0, 5 followed by the invalid word 0xFFFF
LoadThenInvalid == << 1, 4, 0, 5, 255, 255 >>

\* C36: run() starts the instruction counter at 0; when it returns Ok the
\* counter is the number of instructions executed, HLT included, and when
\* it returns an error it is the number completed before the faulting one.
C36_InstructionCount ==
  /\ (at = "fetch" /\ before.is_running = FALSE) => ic = 0
  /\ (loaded \in {"asm", "instr"} /\ StraightLine /\ at = "returned") =>
       IF result = "Ok"
       THEN \E n \in 1 .. Len(Program) : EndsAt(n, pc) /\ ic = n
       ELSE \E n \in 0 .. Len(Program) : EndsAt(n, fetch_pos) /\ ic = n
  /\ (loaded = "image" /\ at = "returned") =>
       /\ (bytes = << 4, 0 >> /\ result = "Ok") => ic = 1
       /\ (bytes = LoadThenInvalid /\ result # "Ok") => ic = 1
       /\ (op = Op_new /\ result # "Ok") => ic = 0

\* the five instructions of the sum program ran to the HLT
C36_Witness ==
  /\ at = "returned" /\ result = "Ok"
  /\ text = SrcSumDec /\ loaded = "asm"
  /\ ic = 5

\* the address range of the STORE given to the encoder leaves the memory
StoresBeyondMemory ==
  /\ instr.name \in {"STORE1", "STORE2", "STORE3"}
  /\ instr.addr.val + WidthIn(instr.name, F_STORE) > MemSize

\* C37: an address at or above the 64 KiB memory is never aliased onto it:
\* a fetch with pc >= 0xFFFF, a jump or STORE whose address range reaches
\* 0x10000, and RTS with sp >= 0xFFFE read and modify no byte of the memory
\* at a wrapped or truncated index.
C37_NoAliasing ==
  /\ (Executed /\ StoresBeyondMemory) => mem = prev.mem
  /\ (Executed /\ instr.name = "RTS" /\ prev.sp >= 65534) =>
       at = "aborted" /\ mem = prev.mem /\ pc = prev.pc
  /\ (Executed /\ instr.name \in {"JMP", "JZ"} /\ at = "fetch") =>
       pc \in {instr.addr.val, fetch_pos + 5}
  /\ at = "decode" =>
       /\ fetch_pos + 2 <= MemSize
       /\ ir = MemAt(mem, fetch_pos) + 256 * MemAt(mem, fetch_pos + 1)
  /\ (at = "aborted" /\ panic_msg = OutOfBounds /\ before.pc + 2 > MemSize) =>
       mem = before.mem /\ pc = before.pc

\* the cycle that has just ended executed a JMP, a taken JZ or an RTS
JumpExecuted ==
  /\ Cycled
  /\ \/ op.code \in {"JMP", "RTS"}
     \/ op.code = "JZ" /\ ZeroSet(prev.flags)

\* run() has ended: it returned, or the program was aborted
RunEnded == at \in {"returned", "aborted"}

C39_DemoProgram ==
  (bytes = DemoImage /\ loaded = "image" /\ MemAt(mem, 0) = DemoImage[1]
     /\ RunEnded) =>
    /\ at = "returned" /\ result = "Ok"
    /\ MemAt(mem, 8192) = 30
====
